---- MODULE Spec2Model ----
(***************************************************************************)
(* spec-shaver: the reduction engine (OpenAPIReducer), the wizard's        *)
(* assembler (buildSchemaFromSelections) and the reference inliner,        *)
(* modelled as operations over JSON documents held in a heap of objects.   *)
(*                                                                         *)
(* Strings are sequences of one-character strings, so toLowerCase,         *)
(* includes, substring, length and the `$ref` regular expressions are      *)
(* computed as the code computes them.  A JSON object is a Node: its       *)
(* `$ref`, `type`, `description`, `example`, `examples` keys and, in       *)
(* `kids`, the values of its other keys in key order (an array is a Node   *)
(* with kids only).  An absent string key is the empty string (the code    *)
(* tests `obj.$ref &&`, `obj.description &&`, which an empty string fails  *)
(* like an absent key); an absent optional object is the empty sequence.   *)
(* Map keys (paths, schema names, component names) are never `example`,    *)
(* `examples` or `description`.                                            *)
(***************************************************************************)
EXTENDS Integers, Sequences, FiniteSets, TLC

VARIABLES
    input,      \* the caller's document: a skeleton whose objects live in heap[1]
    heap,       \* heap[g][slot]: the objects of generation g (1 = the caller's)
    original,   \* the value of the caller's document at construction (history)
    opts,       \* the ReducerOptions the caller passes (an absent key is <<>>)
    selection,  \* the wizard's selected operations (OperationInfo list)
    pc,         \* "init" before the call; "reduced", "resolved" or "built" after it
    locals,     \* the call's local values (prioritizedOps, selectedOps, sizes)
    result,     \* the value the call returned
    cli,        \* a command's run: its command line, the config file, its locals
    effects     \* what a run did to its surroundings: files written, exit code

vars == <<input, heap, original, opts, selection, pc, locals, result, cli, effects>>

(***************************************************************************)
(* Strings                                                                 *)
(***************************************************************************)
Upper == <<"A","B","C","D","E","F","G","H","I","J","K","L","M","N","O","P","Q","R","S","T","U","V","W","X","Y","Z">>
Lower == <<"a","b","c","d","e","f","g","h","i","j","k","l","m","n","o","p","q","r","s","t","u","v","w","x","y","z">>

\* the letter tables of toLowerCase and toUpperCase
LowerMap == [c \in {Upper[i] : i \in 1..Len(Upper)} |->
               Lower[CHOOSE i \in 1..Len(Upper) : Upper[i] = c]]
UpperMap == [c \in {Lower[i] : i \in 1..Len(Lower)} |->
               Upper[CHOOSE i \in 1..Len(Lower) : Lower[i] = c]]

LowerChar(c) == IF c \in DOMAIN LowerMap THEN LowerMap[c] ELSE c
UpperChar(c) == IF c \in DOMAIN UpperMap THEN UpperMap[c] ELSE c

toLowerCase(s) == [i \in 1..Len(s) |-> LowerChar(s[i])]
toUpperCase(s) == [i \in 1..Len(s) |-> UpperChar(s[i])]

\* s.substring(from) read at position i (1-based): does `sub` start there?
StartsAt(s, i, sub) ==
    /\ i >= 1
    /\ i + Len(sub) - 1 <= Len(s)
    /\ \A k \in 1..Len(sub) : s[i + k - 1] = sub[k]

\* String.prototype.includes
includes(s, sub) == \E i \in 1..(Len(s) + 1) : StartsAt(s, i, sub)

\* String.prototype.substring(0, n) for n >= 0
substring0(s, n) == SubSeq(s, 1, IF n < Len(s) THEN n ELSE Len(s))

Min(S) == CHOOSE x \in S : \A y \in S : x <= y

(***************************************************************************)
(* `$ref` strings and the two regular expressions that read them           *)
(***************************************************************************)
ComponentsPrefix == <<"#","/","c","o","m","p","o","n","e","n","t","s","/">>
T_schemas == <<"s","c","h","e","m","a","s">>
T_parameters == <<"p","a","r","a","m","e","t","e","r","s">>
T_responses == <<"r","e","s","p","o","n","s","e","s">>
SchemasPrefix == ComponentsPrefix \o T_schemas \o <<"/">>
CircularText == <<"C","i","r","c","u","l","a","r"," ","r","e","f","e","r","e","n","c","e"," ","t","o"," ">>
Ellipsis == <<".",".",".">>
T_object == <<"o","b","j","e","c","t">>

\* the leftmost place where `prefix` is followed by at least one character
MatchPositions(s, prefix) ==
    {i \in 1..Len(s) : s[i] = prefix[1] /\ StartsAt(s, i, prefix) /\ i + Len(prefix) <= Len(s)}

\* /#\/components\/schemas\/(.+)/ : the capture group, <<>> when no match
schemaRefRegex(s) ==
    LET at == MatchPositions(s, SchemasPrefix)
    IN  IF at = {} THEN <<>>
        ELSE SubSeq(s, Min(at) + Len(SchemasPrefix), Len(s))

ComponentTypes == <<T_schemas, T_parameters, T_responses>>

\* /#\/components\/(schemas|parameters|responses)\/(.+)/ :
\* [type, name] of the leftmost match, type = <<>> when no match
componentRefRegex(s) ==
    LET Pre(t) == ComponentsPrefix \o ComponentTypes[t] \o <<"/">>
        at == UNION {MatchPositions(s, Pre(t)) : t \in 1..Len(ComponentTypes)}
    IN  IF at = {} THEN [type |-> <<>>, name |-> <<>>]
        ELSE LET i == Min(at)
                 t == CHOOSE t \in 1..Len(ComponentTypes) : i \in MatchPositions(s, Pre(t))
             IN  [type |-> ComponentTypes[t],
                  name |-> SubSeq(s, i + Len(Pre(t)), Len(s))]

(***************************************************************************)
(* JSON values                                                             *)
(***************************************************************************)
Obj(ref, description, example, kids) ==
    [ref |-> ref, type |-> <<>>, description |-> description,
     example |-> example, examples |-> FALSE, kids |-> kids]

Leaf == Obj(<<>>, <<>>, FALSE, <<>>)
RefTo(s) == Obj(s, <<>>, FALSE, <<>>)

Op(summary, description, tags, parameters, requestBody, responses) ==
    [summary |-> summary, description |-> description, tags |-> tags,
     parameters |-> parameters, requestBody |-> requestBody, responses |-> responses]

Entry(name, body) == [name |-> name, body |-> body]

\* the keys of a document that hold one optional object each
ShellKeys == <<"info", "servers", "securitySchemes", "parameters", "responses", "security", "tags">>
ShellSlot(k) == CHOOSE i \in 1..Len(ShellKeys) : ShellKeys[i] = k
MapKeys == {"securitySchemes", "parameters", "responses"}

(***************************************************************************)
(* Documents.  A value document holds its objects inline; a skeleton holds *)
(* the address <<generation, slot>> of each object that the code shares by *)
(* reference: every operation, every component schema body and the value   *)
(* of each shell key.  The objects themselves live in the heap.            *)
(***************************************************************************)
RECURSIVE CountBefore(_, _)
CountBefore(paths, i) ==
    IF i = 0 THEN 0 ELSE CountBefore(paths, i - 1) + Len(paths[i].methods)

\* the <<path index, method index>> pairs of a paths map, and in declared order
OpIndex(paths) ==
    UNION {{<<i, j>> : j \in 1..Len(paths[i].methods)} : i \in 1..Len(paths)}

NumShell == Len(ShellKeys)
OpSlot(paths, i, j) == NumShell + CountBefore(paths, i - 1) + j
SchemaSlot(paths, k) == NumShell + CountBefore(paths, Len(paths)) + k

\* JSON.parse's result: the skeleton of value document v, its objects in generation 1
LoadDoc(v) ==
    [openapi |-> v.openapi,
     shell |-> [k \in DOMAIN v.shell |->
                  IF v.shell[k] = <<>> THEN <<>> ELSE << <<1, ShellSlot(k)>> >>],
     paths |-> [i \in 1..Len(v.paths) |->
                  [path |-> v.paths[i].path,
                   methods |-> [j \in 1..Len(v.paths[i].methods) |->
                       [method |-> v.paths[i].methods[j].method,
                        operation |-> <<1, OpSlot(v.paths, i, j)>>]]]],
     schemas |-> [k \in 1..Len(v.schemas) |->
                  Entry(v.schemas[k].name, <<1, SchemaSlot(v.paths, k)>>)]]

LoadHeap(v) ==
    LET shellSlots == {ShellSlot(k) : k \in {x \in DOMAIN v.shell : v.shell[x] # <<>>}}
        opIdx == OpIndex(v.paths)
        opSlots == {OpSlot(v.paths, ij[1], ij[2]) : ij \in opIdx}
        schemaSlots == {SchemaSlot(v.paths, k) : k \in 1..Len(v.schemas)}
        obj(s) ==
            IF s \in shellSlots
            THEN [kind |-> IF ShellKeys[s] \in MapKeys THEN "map" ELSE "node",
                  val |-> v.shell[ShellKeys[s]][1]]
            ELSE IF s \in opSlots
            THEN LET ij == CHOOSE ij \in opIdx : OpSlot(v.paths, ij[1], ij[2]) = s
                 IN  [kind |-> "op", val |-> v.paths[ij[1]].methods[ij[2]].operation]
            ELSE LET k == CHOOSE k \in 1..Len(v.schemas) : SchemaSlot(v.paths, k) = s
                 IN  [kind |-> "node", val |-> v.schemas[k].body]
    IN  << [s \in shellSlots \cup opSlots \cup schemaSlots |-> obj(s)] >>

At(h, a) == h[a[1]][a[2]].val

\* the value of a skeleton: every address replaced by the object it names
Deref(doc, h) ==
    [openapi |-> doc.openapi,
     shell |-> [k \in DOMAIN doc.shell |->
                  IF doc.shell[k] = <<>> THEN <<>> ELSE <<At(h, doc.shell[k][1])>>],
     paths |-> [i \in 1..Len(doc.paths) |->
                  [path |-> doc.paths[i].path,
                   methods |-> [j \in 1..Len(doc.paths[i].methods) |->
                       [method |-> doc.paths[i].methods[j].method,
                        operation |-> At(h, doc.paths[i].methods[j].operation)]]]],
     schemas |-> [k \in 1..Len(doc.schemas) |->
                  Entry(doc.schemas[k].name, At(h, doc.schemas[k].body))]]

Addrs(doc) ==
    {doc.shell[k][1] : k \in {x \in DOMAIN doc.shell : doc.shell[x] # <<>>}}
    \cup {doc.paths[i].methods[j].operation :
            <<i, j>> \in OpIndex(doc.paths)}
    \cup {doc.schemas[k].body : k \in 1..Len(doc.schemas)}

Rebase(doc, g) ==
    [openapi |-> doc.openapi,
     shell |-> [k \in DOMAIN doc.shell |->
                  IF doc.shell[k] = <<>> THEN <<>> ELSE << <<g, doc.shell[k][1][2]>> >>],
     paths |-> [i \in 1..Len(doc.paths) |->
                  [path |-> doc.paths[i].path,
                   methods |-> [j \in 1..Len(doc.paths[i].methods) |->
                       [method |-> doc.paths[i].methods[j].method,
                        operation |-> <<g, doc.paths[i].methods[j].operation[2]>>]]]],
     schemas |-> [k \in 1..Len(doc.schemas) |->
                  Entry(doc.schemas[k].name, <<g, doc.schemas[k].body[2]>>)]]

\* deepClone handing back the objects it was given
deepCloneShared(doc, h) == [doc |-> doc, heap |-> h]

\* deepClone of a whole document: every object copied into a fresh generation
deepClone(doc, h) ==
    LET g == Len(h) + 1
        src(s) == CHOOSE a \in Addrs(doc) : a[2] = s
    IN  [doc |-> Rebase(doc, g),
         heap |-> Append(h, [s \in {a[2] : a \in Addrs(doc)} |-> h[src(s)[1]][s]])]

\* an in-place edit F of every object reachable from doc
MutateAll(doc, h, F(_)) ==
    [g \in 1..Len(h) |->
        [s \in DOMAIN h[g] |->
            IF <<g, s>> \in Addrs(doc)
            THEN [kind |-> h[g][s].kind, val |-> F(h[g][s])]
            ELSE h[g][s]]]

(***************************************************************************)
(* Tree walks of the Size Optimizer                                        *)
(***************************************************************************)
Opt(x, F(_)) == IF x = <<>> THEN <<>> ELSE <<F(x[1])>>

\* removeExamples on one object tree: delete obj.example; delete obj.examples; recurse
RECURSIVE removeExamplesNode(_)
removeExamplesNode(n) ==
    [n EXCEPT !.example = FALSE, !.examples = FALSE,
              !.kids = [i \in 1..Len(n.kids) |-> removeExamplesNode(n.kids[i])]]

removeExamplesObj(o) ==
    IF o.kind = "node" THEN removeExamplesNode(o.val)
    ELSE IF o.kind = "map"
    THEN [i \in 1..Len(o.val) |-> Entry(o.val[i].name, removeExamplesNode(o.val[i].body))]
    ELSE [o.val EXCEPT !.parameters = Opt(@, removeExamplesNode),
                       !.requestBody = Opt(@, removeExamplesNode),
                       !.responses = Opt(@, removeExamplesNode)]

\* removeExamples(doc): in place, on every object reachable from doc
removeExamples(doc, h) == MutateAll(doc, h, removeExamplesObj)

\* the edit truncateDescriptions makes to one description string
truncated(description, maxDescriptionLength) ==
    IF description # <<>> /\ Len(description) > maxDescriptionLength
    THEN substring0(description, maxDescriptionLength) \o Ellipsis
    ELSE description

RECURSIVE truncateDescriptionsNode(_, _)
truncateDescriptionsNode(n, maxLen) ==
    [n EXCEPT !.description = truncated(@, maxLen),
              !.kids = [i \in 1..Len(n.kids) |-> truncateDescriptionsNode(n.kids[i], maxLen)]]

truncateDescriptionsObj(o, maxLen) ==
    LET T(n) == truncateDescriptionsNode(n, maxLen)
    IN  IF o.kind = "node" THEN T(o.val)
        ELSE IF o.kind = "map"
        THEN [i \in 1..Len(o.val) |-> Entry(o.val[i].name, T(o.val[i].body))]
        ELSE [o.val EXCEPT !.description = truncated(@, maxLen),
                           !.parameters = Opt(@, T),
                           !.requestBody = Opt(@, T),
                           !.responses = Opt(@, T)]

\* truncateDescriptions(doc): in place, on every object reachable from doc
truncateDescriptions(doc, h, maxLen) ==
    LET F(o) == truncateDescriptionsObj(o, maxLen)
    IN  MutateAll(doc, h, F)

(***************************************************************************)
(* calculateSize: the length of JSON.stringify(schema).  Every character   *)
(* of the model's strings is one byte; a Node's kids are written as the    *)
(* array under its key "items", an example value as ExampleValue bytes.    *)
(***************************************************************************)
RECURSIVE SumSeq(_)
SumSeq(q) == IF q = <<>> THEN 0 ELSE q[1] + SumSeq(Tail(q))

\* {"k1":v1,...}: braces, one comma between members, each member "key":value
ObjectSize(members) ==
    2 + SumSeq(members) + (IF Len(members) = 0 THEN 0 ELSE Len(members) - 1)
ArraySize(items) == ObjectSize(items)
Member(keyLen, valueSize) == keyLen + 3 + valueSize
StringSize(str) == Len(str) + 2
ExampleValue == 6
Present(cond, m) == IF cond THEN <<m>> ELSE <<>>

RECURSIVE NodeSize(_)
NodeSize(n) ==
    ObjectSize(
        Present(n.ref # <<>>, Member(4, StringSize(n.ref)))
        \o Present(n.type # <<>>, Member(4, StringSize(n.type)))
        \o Present(n.description # <<>>, Member(11, StringSize(n.description)))
        \o Present(n.example, Member(7, ExampleValue))
        \o Present(n.examples, Member(8, ExampleValue))
        \o Present(n.kids # <<>>,
                   Member(5, ArraySize([i \in 1..Len(n.kids) |-> NodeSize(n.kids[i])]))))

MapSize(m) ==
    ObjectSize([i \in 1..Len(m) |-> Member(Len(m[i].name), NodeSize(m[i].body))])

OperationSize(o) ==
    ObjectSize(
        Present(o.summary # <<>>, Member(7, StringSize(o.summary)))
        \o Present(o.description # <<>>, Member(11, StringSize(o.description)))
        \o Present(o.tags # <<>>,
                   Member(4, ArraySize([i \in 1..Len(o.tags) |-> StringSize(o.tags[i])])))
        \o Present(o.parameters # <<>>, Member(10, NodeSize(o.parameters[1])))
        \o Present(o.requestBody # <<>>, Member(11, NodeSize(o.requestBody[1])))
        \o Present(o.responses # <<>>, Member(9, NodeSize(o.responses[1]))))

PathItemSize(item) ==
    ObjectSize([j \in 1..Len(item.methods) |->
                  Member(Len(item.methods[j].method), OperationSize(item.methods[j].operation))])

\* the size of a value document v
JsonSize(v) ==
    LET shellMember(k) ==
            Present(v.shell[k] # <<>>,
                    Member(Len(k), IF k \in MapKeys THEN MapSize(v.shell[k][1])
                                   ELSE NodeSize(v.shell[k][1])))
        components ==
            ObjectSize(<<Member(7, MapSize(v.schemas))>>
                       \o shellMember("securitySchemes")
                       \o shellMember("parameters")
                       \o shellMember("responses"))
    IN  ObjectSize(
            <<Member(7, StringSize(v.openapi))>>
            \o shellMember("info")
            \o shellMember("servers")
            \o <<Member(5, ObjectSize([i \in 1..Len(v.paths) |->
                            Member(Len(v.paths[i].path), PathItemSize(v.paths[i]))]))>>
            \o <<Member(10, components)>>
            \o shellMember("security")
            \o shellMember("tags"))

calculateSize(doc, h) == JsonSize(Deref(doc, h))

(***************************************************************************)
(* OpenAPIReducer: counting, scoring, selection                            *)
(***************************************************************************)
M_get == <<"g","e","t">>
M_post == <<"p","o","s","t">>
M_put == <<"p","u","t">>
M_patch == <<"p","a","t","c","h">>
M_delete == <<"d","e","l","e","t","e">>
\* (mutant) the verb list with head in it
httpMethodsAndHead == <<M_get, M_post, M_put, M_patch, M_delete, (<<"h","e","a","d">>)>>

HTTP_METHODS == <<M_get, M_post, M_put, M_patch, M_delete>>

\* Array.prototype.includes
arrayIncludes(arr, x) == \E i \in 1..Len(arr) : arr[i] = x

\* (mutant) a table in which reading outweighs a core entity
methodPrioritiesSteep(methodLower) ==
    CASE methodLower = M_get -> 150
      [] methodLower = M_post -> 40
      [] methodLower = M_patch -> 30
      [] methodLower = M_put -> 30
      [] methodLower = M_delete -> 20
      [] OTHER -> 0

\* METHOD_PRIORITIES[methodLower] || 0
METHOD_PRIORITIES(methodLower) ==
    CASE methodLower = M_get -> 50
      [] methodLower = M_post -> 40
      [] methodLower = M_patch -> 30
      [] methodLower = M_put -> 30
      [] methodLower = M_delete -> 20
      [] OTHER -> 0

DefaultCoreEntities == <<
    <<"u","s","e","r","s">>,
    <<"a","c","c","o","u","n","t","s">>,
    <<"o","r","g","a","n","i","z","a","t","i","o","n","s">>,
    <<"p","r","o","j","e","c","t","s">>,
    <<"i","t","e","m","s">>,
    <<"r","e","s","o","u","r","c","e","s">>,
    <<"e","v","e","n","t","s">>,
    <<"m","e","s","s","a","g","e","s">>,
    <<"f","i","l","e","s">>,
    <<"s","e","t","t","i","n","g","s">>
    >>

\* (mutant) the constructor storing the method filter as given
constructorKeepCase(options) ==
    [maxActions |-> IF options.maxActions = <<>> THEN 30 ELSE options.maxActions[1],
     maxSizeBytes |-> IF options.maxSizeBytes = <<>> THEN 1024 * 1024 ELSE options.maxSizeBytes[1],
     coreEntities |-> IF options.coreEntities = <<>> THEN DefaultCoreEntities
                      ELSE options.coreEntities[1],
     includeExamples |-> IF options.includeExamples = <<>> THEN FALSE
                         ELSE options.includeExamples[1],
     maxDescriptionLength |-> IF options.maxDescriptionLength = <<>> THEN 200
                              ELSE options.maxDescriptionLength[1],
     methodFilter |-> options.methodFilter,
     resolveRefs |-> IF options.resolveRefs = <<>> THEN FALSE ELSE options.resolveRefs[1]]

\* the constructor: options ?? defaults; the method filter lower-cased.
\* An option the caller left out is the empty sequence.
Default(given, dflt) == IF given = <<>> THEN dflt ELSE given[1]
constructor(options) ==
    [maxActions |-> Default(options.maxActions, 30),
     maxSizeBytes |-> Default(options.maxSizeBytes, 1024 * 1024),
     coreEntities |-> Default(options.coreEntities, DefaultCoreEntities),
     includeExamples |-> Default(options.includeExamples, FALSE),
     maxDescriptionLength |-> Default(options.maxDescriptionLength, 200),
     methodFilter |-> Opt(options.methodFilter,
                          LAMBDA f : [i \in 1..Len(f) |-> toLowerCase(f[i])]),
     resolveRefs |-> Default(options.resolveRefs, FALSE)]

\* (mutant) a count that looks for the verbs as written, in lower case
countOperationsLowerKeys(doc) ==
    Cardinality({ij \in OpIndex(doc.paths) :
        arrayIncludes(HTTP_METHODS, doc.paths[ij[1]].methods[ij[2]].method)})

\* for (const path in schema.paths) for (const method in schema.paths[path]): count++
countOperations(doc) ==
    Cardinality({ij \in OpIndex(doc.paths) :
        arrayIncludes(HTTP_METHODS, toLowerCase(doc.paths[ij[1]].methods[ij[2]].method))})

\* (mutant) the loop without its break: every matching entity adds 100
RECURSIVE entityScoreNoBreak(_, _, _)
entityScoreNoBreak(pathLower, coreEntities, k) ==
    IF k > Len(coreEntities) THEN 0
    ELSE (IF includes(pathLower, <<"/">> \o coreEntities[k]) THEN 100 ELSE 0)
         + entityScoreNoBreak(pathLower, coreEntities, k + 1)

\* the loop over coreEntities from entity k on: += 100 and break at the first match
RECURSIVE entityScore(_, _, _)
entityScore(pathLower, coreEntities, k) ==
    IF k > Len(coreEntities) THEN 0
    ELSE IF includes(pathLower, <<"/">> \o coreEntities[k]) THEN 100
    ELSE entityScore(pathLower, coreEntities, k + 1)

calculatePriority(path, pathLower, methodLower, operation, coreEntities) ==
    entityScore(pathLower, coreEntities, 1)
    + METHOD_PRIORITIES(methodLower)
    + (IF includes(path, <<"{">>) THEN 10 ELSE 15)
    + (IF operation.summary # <<>> /\ Len(operation.summary) > 10 THEN 5 ELSE 0)

\* the <<i, j>> pairs of a paths map in declared order: paths, then each path's methods
RECURSIVE Walk(_, _, _)
Walk(paths, i, j) ==
    IF i > Len(paths) THEN <<>>
    ELSE IF j > Len(paths[i].methods) THEN Walk(paths, i + 1, 1)
    ELSE <<(<<i, j>>)>> \o Walk(paths, i, j + 1)

\* (mutant) a sort that is not stable: an element goes before its equals
RECURSIVE sortUnstable(_)
sortUnstable(ops) ==
    IF ops = <<>> THEN <<>>
    ELSE LET n == Len(ops)
             x == ops[n]
             rest == sortUnstable(SubSeq(ops, 1, n - 1))
             k == Cardinality({i \in 1..Len(rest) : rest[i].priority > x.priority})
         IN  SubSeq(rest, 1, k) \o <<x>> \o SubSeq(rest, k + 1, Len(rest))

\* Array.prototype.sort((a, b) => b.priority - a.priority), which is stable:
\* each element goes after every element of priority >= its own
RECURSIVE sortByPriority(_)
sortByPriority(ops) ==
    IF ops = <<>> THEN <<>>
    ELSE LET n == Len(ops)
             x == ops[n]
             rest == sortByPriority(SubSeq(ops, 1, n - 1))
             k == Cardinality({i \in 1..Len(rest) : rest[i].priority >= x.priority})
         IN  SubSeq(rest, 1, k) \o <<x>> \o SubSeq(rest, k + 1, Len(rest))

SelectSeq2(q, Keep(_)) ==
    LET F[i \in 0..Len(q)] ==
            IF i = 0 THEN <<>>
            ELSE IF Keep(q[i]) THEN Append(F[i - 1], q[i]) ELSE F[i - 1]
    IN  F[Len(q)]

prioritizeOperations(doc, h, o) ==
    LET all == Walk(doc.paths, 1, 1)
        methodOf(ij) == doc.paths[ij[1]].methods[ij[2]].method
        eligible(ij) ==
            /\ arrayIncludes(HTTP_METHODS, toLowerCase(methodOf(ij)))
            /\ (o.methodFilter = <<>>
                \/ arrayIncludes(o.methodFilter[1], toLowerCase(methodOf(ij))))
        kept == SelectSeq2(all, eligible)
        operations ==
            [n \in 1..Len(kept) |->
                LET path == doc.paths[kept[n][1]].path
                    entry == doc.paths[kept[n][1]].methods[kept[n][2]]
                IN  [path |-> path,
                     method |-> entry.method,
                     operation |-> entry.operation,
                     priority |-> calculatePriority(path, toLowerCase(path),
                                     toLowerCase(entry.method), At(h, entry.operation),
                                     o.coreEntities)]]
    IN  sortByPriority(operations)

\* (mutant) a slice that keeps one element too many
sliceOneMore(arr, n) == SubSeq(arr, 1, IF n + 1 < Len(arr) THEN n + 1 ELSE Len(arr))

\* Array.prototype.slice(0, n) for n >= 0
slice0(arr, n) == SubSeq(arr, 1, IF n < Len(arr) THEN n ELSE Len(arr))

(***************************************************************************)
(* OpenAPIReducer: document assembly and schema closure                    *)
(***************************************************************************)
\* map[name], as an optional value
Lookup(map, name) ==
    IF \E i \in 1..Len(map) : map[i].name = name
    THEN <<map[CHOOSE i \in 1..Len(map) : map[i].name = name].body>>
    ELSE <<>>

\* reducedSchema.paths[op.path] ||= {}; reducedSchema.paths[op.path][method] = op.operation
setOperation(paths, path, method, operation) ==
    LET entry == [method |-> method, operation |-> operation]
    IN  IF \E i \in 1..Len(paths) : paths[i].path = path
        THEN LET i == CHOOSE i \in 1..Len(paths) : paths[i].path = path
                 ms == paths[i].methods
             IN  IF \E j \in 1..Len(ms) : ms[j].method = method
                 THEN [paths EXCEPT ![i].methods[CHOOSE j \in 1..Len(ms) : ms[j].method = method] = entry]
                 ELSE [paths EXCEPT ![i].methods = Append(@, entry)]
        ELSE Append(paths, [path |-> path, methods |-> <<entry>>])

\* The reducer's findRefs over one object tree.  refs is the insertion-ordered
\* Set `references` (the Set `visited` always has the same members); schemas is
\* schema.components.schemas of the document findReferencedSchemas was given.
RECURSIVE findRefs(_, _, _, _)
findRefs(n, refs, schemas, h) ==
    IF n.ref # <<>>
    THEN LET schemaName == schemaRefRegex(n.ref)
         IN  IF schemaName # <<>> /\ ~arrayIncludes(refs, schemaName)
             THEN LET referencedSchema == Lookup(schemas, schemaName)
                  IN  IF referencedSchema # <<>>
                      THEN findRefs(At(h, referencedSchema[1]), Append(refs, schemaName), schemas, h)
                      ELSE Append(refs, schemaName)
             ELSE refs
    ELSE LET F[i \in 0..Len(n.kids)] ==
                 IF i = 0 THEN refs ELSE findRefs(n.kids[i], F[i - 1], schemas, h)
         IN  F[Len(n.kids)]

\* findRefs over the values of an operation object
findRefsOperation(o, refs, schemas, h, Find(_, _, _, _)) ==
    LET parts == o.parameters \o o.requestBody \o o.responses
        F[i \in 0..Len(parts)] ==
            IF i = 0 THEN refs ELSE Find(parts[i], F[i - 1], schemas, h)
    IN  F[Len(parts)]

\* findRefs(schema.paths)
findRefsPaths(doc, schemas, h, Find(_, _, _, _)) ==
    LET all == Walk(doc.paths, 1, 1)
        F[n \in 0..Len(all)] ==
            IF n = 0 THEN <<>>
            ELSE findRefsOperation(
                    At(h, doc.paths[all[n][1]].methods[all[n][2]].operation),
                    F[n - 1], schemas, h, Find)
    IN  F[Len(all)]

\* OpenAPIReducer.findReferencedSchemas(schema): the lookups go to schema itself
findReferencedSchemas(doc, h) == findRefsPaths(doc, doc.schemas, h, findRefs)

\* the shell of a reduced document: the source's values, by reference
reducedShell(doc) ==
    [openapi |-> doc.openapi, shell |-> doc.shell, paths |-> <<>>, schemas |-> <<>>]

addSelected(reducedSchema, selectedOps, Key(_)) ==
    LET F[n \in 0..Len(selectedOps)] ==
            IF n = 0 THEN <<>>
            ELSE setOperation(F[n - 1], selectedOps[n].path, Key(selectedOps[n].method),
                              selectedOps[n].operation)
    IN  [reducedSchema EXCEPT !.paths = F[Len(selectedOps)]]

\* (mutant) an assembler that keeps every schema of the source
includeAllSchemas(reducedSchema, referencedSchemas, source) ==
    [reducedSchema EXCEPT !.schemas = source.schemas]

\* for (const schemaName of referencedSchemas) if (source has it) copy it by reference
includeSchemas(reducedSchema, referencedSchemas, source) ==
    LET F[n \in 0..Len(referencedSchemas)] ==
            IF n = 0 THEN <<>>
            ELSE LET found == Lookup(source.schemas, referencedSchemas[n])
                 IN  IF found # <<>>
                     THEN Append(F[n - 1], Entry(referencedSchemas[n], found[1]))
                     ELSE F[n - 1]
    IN  [reducedSchema EXCEPT !.schemas = F[Len(referencedSchemas)]]

buildReducedSchema(doc, selectedOps, h) ==
    LET withPaths == addSelected(reducedShell(doc), selectedOps, LAMBDA m : m)
    IN  includeSchemas(withPaths, findReferencedSchemas(withPaths, h), doc)

\* (mutant) optimizeSize without the return after the example step
optimizeSizeAlwaysTruncates(doc, h, o) ==
    IF calculateSize(doc, h) <= o.maxSizeBytes
    THEN [doc |-> doc, heap |-> h]
    ELSE LET optimized == deepClone(doc, h)
             afterExamples ==
                 IF ~o.includeExamples
                 THEN removeExamples(optimized.doc, optimized.heap)
                 ELSE optimized.heap
         IN  [doc |-> optimized.doc,
              heap |-> truncateDescriptions(optimized.doc, afterExamples,
                                            o.maxDescriptionLength)]

(***************************************************************************)
(* OpenAPIReducer.optimizeSize                                             *)
(***************************************************************************)
optimizeSize(doc, h, o) ==
    IF calculateSize(doc, h) <= o.maxSizeBytes
    THEN [doc |-> doc, heap |-> h]
    ELSE LET optimized == deepClone(doc, h)
             afterExamples ==
                 IF ~o.includeExamples
                 THEN removeExamples(optimized.doc, optimized.heap)
                 ELSE optimized.heap
         IN  IF ~o.includeExamples /\ calculateSize(optimized.doc, afterExamples) <= o.maxSizeBytes
             THEN [doc |-> optimized.doc, heap |-> afterExamples]
             ELSE [doc |-> optimized.doc,
                   heap |-> truncateDescriptions(optimized.doc, afterExamples,
                                                 o.maxDescriptionLength)]

(***************************************************************************)
(* OpenAPIReducer.resolveReferences                                        *)
(***************************************************************************)
\* { type: 'object', description: `Circular reference to ${refPath}` }
Sentinel(refPath) ==
    [ref |-> <<>>, type |-> T_object, description |-> CircularText \o refPath,
     example |-> FALSE, examples |-> FALSE, kids |-> <<>>]

\* The component maps resolveRefs closes over, as values.
componentsOf(doc, h) ==
    [schemas |-> [k \in 1..Len(doc.schemas) |->
                    Entry(doc.schemas[k].name, At(h, doc.schemas[k].body))],
     parameters |-> IF doc.shell.parameters = <<>> THEN <<>>
                    ELSE At(h, doc.shell.parameters[1]),
     responses |-> IF doc.shell.responses = <<>> THEN <<>>
                   ELSE At(h, doc.shell.responses[1])]

referencedComponent(components, refPath) ==
    LET match == componentRefRegex(refPath)
    IN  IF match.type = T_schemas THEN Lookup(components.schemas, match.name)
        ELSE IF match.type = T_parameters THEN Lookup(components.parameters, match.name)
        ELSE IF match.type = T_responses THEN Lookup(components.responses, match.name)
        ELSE <<>>

\* the `$ref` strings of an object
RECURSIVE refStrings(_)
refStrings(obj) ==
    (IF obj.ref # <<>> THEN {obj.ref} ELSE {})
    \cup UNION {refStrings(obj.kids[i]) : i \in 1..Len(obj.kids)}

componentRefStrings(components) ==
    UNION {UNION {refStrings(m[i].body) : i \in 1..Len(m)} :
              m \in {components.schemas, components.parameters, components.responses}}

\* Every expansion adds a new `$ref` string to visited, so a terminating walk
\* nests no more expansions than the components hold distinct `$ref` strings,
\* plus the one it started from; one more can only begin an endless recursion.
ExpansionLimit(components) == Cardinality(componentRefStrings(components)) + 1

\* resolveRefs(obj, visited): [val, visited, diverged], visited being the one Set
\* object the whole top-level call shares; fuel is the number of nested
\* expansions still allowed, and diverged reports that the walk ran out of it.
RECURSIVE resolveRefs(_, _, _, _)
RECURSIVE resolveEach(_, _, _, _, _)
\* resolveRefs without the visited check
resolveRefsUnguarded(obj, visited, components, fuel) ==
    IF fuel < 0
    THEN [val |-> obj, visited |-> visited, diverged |-> TRUE]
    ELSE IF obj.ref # <<>>
    THEN LET target == referencedComponent(components, obj.ref)
         IN  IF target # <<>>
             THEN resolveRefs(target[1], visited \cup {obj.ref}, components, fuel - 1)
             ELSE [val |-> obj, visited |-> visited \cup {obj.ref}, diverged |-> FALSE]
    ELSE LET done == resolveEach(obj.kids, 1,
                                 [val |-> <<>>, visited |-> visited, diverged |-> FALSE],
                                 components, fuel)
         IN  [val |-> [obj EXCEPT !.kids = done.val],
              visited |-> done.visited, diverged |-> done.diverged]

\* resolveRefs returning the clone of the target as it is
resolveRefsShallow(obj, visited, components, fuel) ==
    IF obj.ref # <<>>
    THEN IF obj.ref \in visited
         THEN [val |-> Sentinel(obj.ref), visited |-> visited, diverged |-> FALSE]
         ELSE LET target == referencedComponent(components, obj.ref)
              IN  [val |-> IF target # <<>> THEN target[1] ELSE obj,
                   visited |-> visited \cup {obj.ref}, diverged |-> FALSE]
    ELSE LET done == resolveEach(obj.kids, 1,
                                 [val |-> <<>>, visited |-> visited, diverged |-> FALSE],
                                 components, fuel)
         IN  [val |-> [obj EXCEPT !.kids = done.val],
              visited |-> done.visited, diverged |-> done.diverged]

resolveRefs(obj, visited, components, fuel) ==
    IF fuel < 0
    THEN [val |-> obj, visited |-> visited, diverged |-> TRUE]
    ELSE IF obj.ref # <<>>
    THEN IF obj.ref \in visited
         THEN [val |-> Sentinel(obj.ref), visited |-> visited, diverged |-> FALSE]
         ELSE LET target == referencedComponent(components, obj.ref)
              IN  IF target # <<>>
                  THEN resolveRefs(target[1], visited \cup {obj.ref}, components, fuel - 1)
                  ELSE [val |-> obj, visited |-> visited \cup {obj.ref}, diverged |-> FALSE]
    ELSE LET done == resolveEach(obj.kids, 1,
                                 [val |-> <<>>, visited |-> visited, diverged |-> FALSE],
                                 components, fuel)
         IN  [val |-> [obj EXCEPT !.kids = done.val],
              visited |-> done.visited, diverged |-> done.diverged]

\* the members of an object from the i-th on, each resolved with the visited
\* set its predecessors left
resolveEach(kids, i, acc, components, fuel) ==
    IF i > Len(kids) THEN acc
    ELSE LET r == resolveRefs(kids[i], acc.visited, components, fuel)
         IN  resolveEach(kids, i + 1,
                         [val |-> Append(acc.val, r.val),
                          visited |-> r.visited,
                          diverged |-> acc.diverged \/ r.diverged],
                         components, fuel)

\* x ? resolveRefs(x, new Set()) : x
resolveTop(x, components) ==
    IF x = <<>> THEN [val |-> <<>>, diverged |-> FALSE]
    ELSE LET r == resolveRefs(x[1], {}, components, ExpansionLimit(components))
         IN  [val |-> <<r.val>>, diverged |-> r.diverged]

\* (mutant) an inliner that resolves an operation's parameters too
resolveOperationAll(operation, components) ==
    [operation EXCEPT !.parameters = resolveTop(@, components).val,
                      !.responses = resolveTop(@, components).val,
                      !.requestBody = resolveTop(@, components).val]

\* { ...operation, parameters, responses: resolved, requestBody: resolved }
resolveOperation(operation, components) ==
    [operation EXCEPT !.responses = resolveTop(@, components).val,
                      !.requestBody = resolveTop(@, components).val]

resolveObject(o, components, isOperation) ==
    IF isOperation THEN resolveOperation(o.val, components)
    ELSE resolveRefs(o.val, {}, components, ExpansionLimit(components)).val

resolveReferences(doc, h) ==
    LET resolved == deepClone(doc, h)
        g == Len(resolved.heap)
        components == componentsOf(resolved.doc, resolved.heap)
        ops == {resolved.doc.paths[ij[1]].methods[ij[2]].operation[2] :
                    ij \in OpIndex(resolved.doc.paths)}
        bodies == {resolved.doc.schemas[k].body[2] : k \in 1..Len(resolved.doc.schemas)}
    IN  [doc |-> resolved.doc,
         heap |-> [resolved.heap EXCEPT ![g] =
                     [s \in DOMAIN @ |->
                        IF s \in ops \cup bodies
                        THEN [kind |-> @[s].kind,
                              val |-> resolveObject(@[s], components, s \in ops)]
                        ELSE @[s]]]]

\* whether some top-level resolveRefs call of resolveReferences(doc) gave up
resolveDiverged(doc, h) ==
    LET components == componentsOf(doc, h)
    IN  \/ \E ij \in OpIndex(doc.paths) :
              LET operation == At(h, doc.paths[ij[1]].methods[ij[2]].operation)
              IN  \/ resolveTop(operation.responses, components).diverged
                  \/ resolveTop(operation.requestBody, components).diverged
        \/ \E k \in 1..Len(doc.schemas) :
              resolveRefs(At(h, doc.schemas[k].body), {}, components,
                          ExpansionLimit(components)).diverged

\* (mutant) a reducer that spends its maxActions: each call leaves the instance
\* with what the call did not select
reduceSpendsBudget(doc, h, o) ==
    LET originalOperationCount == countOperations(doc)
        prioritizedOps == prioritizeOperations(doc, h, o)
        selectedOps == slice0(prioritizedOps, o.maxActions)
        built == buildReducedSchema(doc, selectedOps, h)
        resolved == IF o.resolveRefs THEN resolveReferences(built, h)
                    ELSE [doc |-> built, heap |-> h]
        optimized == optimizeSize(resolved.doc, resolved.heap, o)
    IN  [schema |-> optimized.doc,
         heap |-> optimized.heap,
         originalOperationCount |-> originalOperationCount,
         reducedOperationCount |-> countOperations(optimized.doc),
         sizeBytes |-> calculateSize(optimized.doc, optimized.heap),
         operations |-> [n \in 1..Len(selectedOps) |->
                           [method |-> toUpperCase(selectedOps[n].method),
                            path |-> selectedOps[n].path,
                            summary |-> At(optimized.heap, selectedOps[n].operation).summary]],
         prioritizedOps |-> prioritizedOps,
         selectedOps |-> selectedOps,
         built |-> built,
         given |-> resolved.doc,
         sizeGiven |-> calculateSize(resolved.doc, resolved.heap),
         self |-> [o EXCEPT !.maxActions = @ - Len(selectedOps)]]

\* (mutant) reduce with the Size Optimizer ahead of the Reference Inliner
reduceOptimizeFirst(doc, h, o) ==
    LET originalOperationCount == countOperations(doc)
        prioritizedOps == prioritizeOperations(doc, h, o)
        selectedOps == slice0(prioritizedOps, o.maxActions)
        built == buildReducedSchema(doc, selectedOps, h)
        optimized == optimizeSize(built, h, o)
        resolved == IF o.resolveRefs THEN resolveReferences(optimized.doc, optimized.heap)
                    ELSE optimized
    IN  [schema |-> resolved.doc,
         heap |-> resolved.heap,
         originalOperationCount |-> originalOperationCount,
         reducedOperationCount |-> countOperations(resolved.doc),
         sizeBytes |-> calculateSize(resolved.doc, resolved.heap),
         operations |-> [n \in 1..Len(selectedOps) |->
                           [method |-> toUpperCase(selectedOps[n].method),
                            path |-> selectedOps[n].path,
                            summary |-> At(resolved.heap, selectedOps[n].operation).summary]],
         prioritizedOps |-> prioritizedOps,
         selectedOps |-> selectedOps,
         built |-> built,
         given |-> built,
         sizeGiven |-> calculateSize(built, h),
         self |-> o]

\* the member of a set of one: in `The({e(x) : x \in {v}})` the value v of a
\* step is computed once, whatever the number of its uses in e
The(S) == CHOOSE x \in S : TRUE

(***************************************************************************)
(* OpenAPIReducer.reduce                                                   *)
(***************************************************************************)
reduce(doc, h, o) ==
    The({The({The({The({The({
        [schema |-> optimized.doc,
         heap |-> optimized.heap,
         originalOperationCount |-> countOperations(doc),
         reducedOperationCount |-> countOperations(optimized.doc),
         sizeBytes |-> calculateSize(optimized.doc, optimized.heap),
         operations |-> [n \in 1..Len(selectedOps) |->
                           [method |-> toUpperCase(selectedOps[n].method),
                            path |-> selectedOps[n].path,
                            summary |-> At(optimized.heap, selectedOps[n].operation).summary]],
         prioritizedOps |-> prioritizedOps,
         selectedOps |-> selectedOps,
         built |-> built,
         given |-> resolved.doc,
         sizeGiven |-> calculateSize(resolved.doc, resolved.heap),
         self |-> o] :
        optimized \in {optimizeSize(resolved.doc, resolved.heap, o)}}) :
        resolved \in {IF o.resolveRefs THEN resolveReferences(built, h)
                      ELSE [doc |-> built, heap |-> h]}}) :
        built \in {buildReducedSchema(doc, selectedOps, h)}}) :
        selectedOps \in {slice0(prioritizedOps, o.maxActions)}}) :
        prioritizedOps \in {prioritizeOperations(doc, h, o)}})

(***************************************************************************)
(* wizard.ts: buildSchemaFromSelections                                    *)
(***************************************************************************)
\* (mutant) a findRefs that records a reference and does not walk the schema
\* it names
RECURSIVE wizardFindRefsShallow(_, _, _, _)
wizardFindRefsShallow(n, refs, schemas, h) ==
    LET schemaName == IF n.ref # <<>> THEN schemaRefRegex(n.ref) ELSE <<>>
        afterRef ==
            IF schemaName # <<>> /\ ~arrayIncludes(refs, schemaName)
            THEN Append(refs, schemaName)
            ELSE refs
        F[i \in 0..Len(n.kids)] ==
            IF i = 0 THEN afterRef ELSE wizardFindRefsShallow(n.kids[i], F[i - 1], schemas, h)
    IN  F[Len(n.kids)]

\* The wizard's findRefs: a `$ref` node is recorded and then walked like any
\* other object; the lookups go to the original document.
RECURSIVE wizardFindRefs(_, _, _, _)
wizardFindRefs(n, refs, schemas, h) ==
    LET schemaName == IF n.ref # <<>> THEN schemaRefRegex(n.ref) ELSE <<>>
        afterRef ==
            IF schemaName # <<>> /\ ~arrayIncludes(refs, schemaName)
            THEN LET found == Lookup(schemas, schemaName)
                 IN  IF found # <<>>
                     THEN wizardFindRefs(At(h, found[1]), Append(refs, schemaName), schemas, h)
                     ELSE Append(refs, schemaName)
            ELSE refs
        F[i \in 0..Len(n.kids)] ==
            IF i = 0 THEN afterRef ELSE wizardFindRefs(n.kids[i], F[i - 1], schemas, h)
    IN  F[Len(n.kids)]

wizardFindReferencedSchemas(doc, originalSchema, h) ==
    findRefsPaths(doc, originalSchema.schemas, h, wizardFindRefs)

\* wizard.ts removeExamples(reducedSchema): in place
wizardRemoveExamples(doc, h) == MutateAll(doc, h, removeExamplesObj)

buildSchemaFromSelections(originalSchema, selectedOperations, options, h) ==
    LET includeExamples == Default(options.includeExamples, FALSE)
        withPaths == addSelected(reducedShell(originalSchema), selectedOperations, toLowerCase)
        reducedSchema ==
            includeSchemas(withPaths,
                           wizardFindReferencedSchemas(withPaths, originalSchema, h),
                           originalSchema)
        h1 == IF ~includeExamples THEN wizardRemoveExamples(reducedSchema, h) ELSE h
        final == IF Default(options.resolveRefs, FALSE)
                 THEN resolveReferences(reducedSchema, h1)
                 ELSE [doc |-> reducedSchema, heap |-> h1]
    IN  [schema |-> final.doc,
         heap |-> final.heap,
         originalOperationCount |->
            Cardinality({ij \in OpIndex(originalSchema.paths) :
                arrayIncludes(HTTP_METHODS, originalSchema.paths[ij[1]].methods[ij[2]].method)}),
         reducedOperationCount |-> Len(selectedOperations),
         sizeBytes |-> calculateSize(final.doc, final.heap),
         operations |-> [n \in 1..Len(selectedOperations) |->
                           [method |-> selectedOperations[n].method,
                            path |-> selectedOperations[n].path,
                            summary |-> At(final.heap, selectedOperations[n].operation).summary]],
         built |-> reducedSchema]

(***************************************************************************)
(* The calls                                                               *)
(***************************************************************************)
\* new OpenAPIReducer(opts).reduce(input)
Reduce ==
    /\ pc = "init"
    /\ \E reducer \in {constructor(opts)} :
       \E r \in {reduce(input, heap, reducer)} :
           /\ heap' = r.heap
           /\ result' = [schema |-> r.schema,
                         originalOperationCount |-> r.originalOperationCount,
                         reducedOperationCount |-> r.reducedOperationCount,
                         sizeBytes |-> r.sizeBytes,
                         operations |-> r.operations]
           /\ locals' = [prioritizedOps |-> r.prioritizedOps,
                         selectedOps |-> r.selectedOps,
                         built |-> r.built,
                         given |-> r.given,
                         sizeGiven |-> r.sizeGiven,
                         self |-> r.self]
    /\ pc' = "reduced"
    /\ UNCHANGED <<input, original, opts, selection, cli, effects>>

\* reducer.reduce(input) once more, on the instance and the input that the first
\* call left behind
ReduceAgain ==
    /\ pc = "reduced"
    /\ \E r \in {reduce(input, heap, locals.self)} :
           /\ heap' = r.heap
           /\ result' = [schema |-> r.schema,
                         originalOperationCount |-> r.originalOperationCount,
                         reducedOperationCount |-> r.reducedOperationCount,
                         sizeBytes |-> r.sizeBytes,
                         operations |-> r.operations]
           /\ locals' = [prioritizedOps |-> r.prioritizedOps,
                         selectedOps |-> r.selectedOps,
                         built |-> r.built,
                         given |-> r.given,
                         sizeGiven |-> r.sizeGiven,
                         self |-> r.self,
                         first |-> [prioritizedOps |-> locals.prioritizedOps,
                                    selectedOps |-> locals.selectedOps,
                                    operations |-> result.operations]]
    /\ pc' = "reducedAgain"
    /\ UNCHANGED <<input, original, opts, selection, cli, effects>>

\* new OpenAPIReducer(opts).resolveReferences(input)
ResolveReferences ==
    /\ pc = "init"
    /\ \E r \in {resolveReferences(input, heap)} :
           /\ heap' = r.heap
           /\ result' = [schema |-> r.doc]
    /\ locals' = [diverged |-> resolveDiverged(input, heap)]
    /\ pc' = "resolved"
    /\ UNCHANGED <<input, original, opts, selection, cli, effects>>

\* buildSchemaFromSelections(input, selection, opts)
BuildSchemaFromSelections ==
    /\ pc = "init"
    /\ \E r \in {buildSchemaFromSelections(input, selection, opts, heap)} :
           /\ heap' = r.heap
           /\ result' = [schema |-> r.schema,
                         originalOperationCount |-> r.originalOperationCount,
                         reducedOperationCount |-> r.reducedOperationCount,
                         sizeBytes |-> r.sizeBytes,
                         operations |-> r.operations]
           /\ locals' = [built |-> r.built]
    /\ pc' = "built"
    /\ UNCHANGED <<input, original, opts, selection, cli, effects>>

(***************************************************************************)
(* Input documents                                                         *)
(***************************************************************************)
Version == <<"3",".","0",".","0">>
NoShell == [k \in {ShellKeys[i] : i \in 1..Len(ShellKeys)} |-> <<>>]
NoOptions ==
    [maxActions |-> <<>>, maxSizeBytes |-> <<>>, coreEntities |-> <<>>,
     includeExamples |-> <<>>, maxDescriptionLength |-> <<>>,
     methodFilter |-> <<>>, resolveRefs |-> <<>>]

\* what a run has done to the world: the files written, the exit code, and
\* the warnings of the command's handler in cli.ts
NoEffects == [files |-> <<>>, exitCode |-> <<>>, log |-> <<>>]

Start(v, options, selected) ==
    /\ input = LoadDoc(v)
    /\ heap = LoadHeap(v)
    /\ original = v
    /\ opts = options
    /\ selection = selected
    /\ pc = "init"
    /\ locals = <<>>
    /\ result = <<>>
    /\ cli = <<>>
    /\ effects = NoEffects

(***************************************************************************)
(* cli.ts (the 1.1.0 command line, which loads the config file and         *)
(* validates) and config.ts.  An options object is a function from its     *)
(* keys to their values; the value of a key it does not have is undefined, *)
(* <<>> here, and a value it has is <<value>>.                             *)
(***************************************************************************)
Get(o, k) == IF k \in DOMAIN o THEN <<o[k]>> ELSE <<>>

Digits == <<"0", "1", "2", "3", "4", "5", "6", "7", "8", "9">>
IsDigit(c) == \E i \in 1..Len(Digits) : Digits[i] = c
DigitValue(c) == (CHOOSE i \in 1..Len(Digits) : Digits[i] = c) - 1

\* String(n) of a non-negative integer
RECURSIVE String(_)
String(n) == IF n < 10 THEN <<Digits[n + 1]>> ELSE Append(String(n \div 10), Digits[(n % 10) + 1])

NaN == "NaN"

RECURSIVE parseDigits(_, _, _)
parseDigits(s, i, acc) ==
    IF i > Len(s) \/ ~IsDigit(s[i]) THEN acc
    ELSE parseDigits(s, i + 1, acc * 10 + DigitValue(s[i]))

\* parseInt(s): leading blanks, an optional sign, the longest run of digits
RECURSIVE parseInt(_)
parseInt(s) ==
    IF s = <<>> THEN NaN
    ELSE IF s[1] = " " THEN parseInt(Tail(s))
    ELSE IF s[1] \in {"-", "+"}
    THEN (IF Len(s) < 2 \/ ~IsDigit(s[2]) THEN NaN
          ELSE IF s[1] = "-" THEN 0 - parseDigits(s, 2, 0) ELSE parseDigits(s, 2, 0))
    ELSE IF ~IsDigit(s[1]) THEN NaN
    ELSE parseDigits(s, 1, 0)

RECURSIVE split(_, _)
split(s, separator) ==
    LET at == {i \in 1..Len(s) : s[i] = separator}
    IN  IF at = {} THEN <<s>>
        ELSE LET i == CHOOSE x \in at : \A y \in at : x <= y
             IN  <<SubSeq(s, 1, i - 1)>> \o split(SubSeq(s, i + 1, Len(s)), separator)

RECURSIVE trim(_)
trim(s) ==
    IF s = <<>> THEN s
    ELSE IF s[1] = " " THEN trim(Tail(s))
    ELSE IF s[Len(s)] = " " THEN trim(SubSeq(s, 1, Len(s) - 1))
    ELSE s

\* parseMethodFilter(methods)
parseMethodFilter(methods) ==
    IF methods = <<>> \/ methods[1] = <<>> THEN <<>>
    ELSE LET parts == split(methods[1], ",")
         IN  <<[i \in 1..Len(parts) |-> toLowerCase(trim(parts[i]))]>>

\* the defaults of a command's .option(...) declarations
T_reducedSchemaJson == <<"r","e","d","u","c","e","d","_","s","c","h","e","m","a",".","j","s","o","n">>
optionDefaults(command) ==
    IF command = "wizard"
    THEN [output |-> T_reducedSchemaJson, includeExamples |-> FALSE]
    ELSE [output |-> T_reducedSchemaJson, actions |-> <<"3", "0">>,
          size |-> String(1024 * 1024), includeExamples |-> FALSE]

\* the options object commander hands to .action(): the defaults, and over
\* them what the command line passed
parseOptions(command, argv) ==
    LET defaults == optionDefaults(command)
    IN  [k \in DOMAIN defaults \cup DOMAIN argv |->
            IF k \in DOMAIN argv THEN argv[k] ELSE defaults[k]]

\* (mutant) mergeConfig with the spread the other way round
mergeConfigFileWins(cliOptions, config) ==
    IF config = <<>> THEN cliOptions
    ELSE [k \in DOMAIN config[1] \cup DOMAIN cliOptions |->
            IF k \in DOMAIN config[1] THEN config[1][k] ELSE cliOptions[k]]

\* config.ts mergeConfig: { ...config, ...cliOptions }
mergeConfig(cliOptions, config) ==
    IF config = <<>> THEN cliOptions
    ELSE [k \in DOMAIN config[1] \cup DOMAIN cliOptions |->
            IF k \in DOMAIN cliOptions THEN cliOptions[k] ELSE config[1][k]]

\* the object literal of new OpenAPIReducer({...}) in the reduce and fetch commands
reducerOptions(mergedOptions) ==
    [maxActions |-> <<parseInt(Default(Get(mergedOptions, "actions"), <<>>))>>,
     maxSizeBytes |-> <<parseInt(Default(Get(mergedOptions, "size"), <<>>))>>,
     coreEntities |-> Get(mergedOptions, "coreEntities"),
     includeExamples |-> Get(mergedOptions, "includeExamples"),
     maxDescriptionLength |-> Get(mergedOptions, "maxDescriptionLength"),
     methodFilter |-> parseMethodFilter(Get(mergedOptions, "methods")),
     resolveRefs |-> <<>>]

\* the object literal of runWizard(schema, {...}) in the wizard command
wizardOptions(mergedOptions) ==
    [NoOptions EXCEPT !.includeExamples = Get(mergedOptions, "includeExamples"),
                      !.coreEntities = Get(mergedOptions, "coreEntities"),
                      !.maxDescriptionLength = Get(mergedOptions, "maxDescriptionLength")]

\* process.exit(code)
Exit(code) ==
    /\ pc' = "exited"
    /\ effects' = [effects EXCEPT !.exitCode = <<code>>]

\* logger.warn(message): one more line of the log, at level warn
warn(log, message) == Append(log, [level |-> "warn", message |-> message])

W_originalInvalid == "Original schema validation failed, continuing anyway..."
W_exceedsLimit == "Schema exceeds size limit!"

\* (mutant) the original validated like the reduced document: a failure is
\* thrown to the handler's catch
validateOriginalOrThrow(valid, log) ==
    [log |-> log, thrown |-> ~valid]

\* try { validateSchemaOrThrow(schema, 'Original schema') }
\* catch { logger.warn('Original schema validation failed, continuing anyway...') }
\* The validator's verdict is the environment's.
validateOriginal(valid, log) ==
    [log |-> IF valid THEN log ELSE warn(log, W_originalInvalid), thrown |-> FALSE]

\* a > b of two numbers, false when b is NaN
greaterThan(a, b) == IF b \in Int THEN a > b ELSE FALSE

\* The reduce and fetch commands, from the start of .action() to the call of
\* the validator on the reduced document: loadConfig (the config file found
\* is cli.config), mergeConfig, reading or fetching the document (a failure
\* throws, and the handler's catch exits with 1), validation of the original,
\* new OpenAPIReducer({...}).reduce(schema).
ReduceCommand ==
    /\ pc = "cli"
    /\ cli.command \in {"reduce", "fetch"}
    /\ \E loaded \in BOOLEAN :
       \E originalValid \in IF loaded THEN BOOLEAN ELSE {TRUE} :
       \E checked \in {validateOriginal(originalValid, effects.log)} :
       \E mergedOptions \in {mergeConfig(cli.options, cli.config)} :
           /\ cli' = [cli EXCEPT !.mergedOptions = <<mergedOptions>>,
                                 !.loaded = <<loaded>>,
                                 !.originalValid = IF loaded THEN <<originalValid>> ELSE <<>>]
           /\ IF ~loaded \/ checked.thrown
              THEN /\ pc' = "exited"
                   /\ effects' = [effects EXCEPT !.exitCode = <<1>>, !.log = checked.log]
                   /\ UNCHANGED <<heap, result, locals, opts>>
              ELSE /\ opts' = reducerOptions(mergedOptions)
                   /\ \E reducer \in {constructor(reducerOptions(mergedOptions))} :
                      \E r \in {reduce(input, heap, reducer)} :
                          /\ heap' = r.heap
                          /\ result' = [schema |-> r.schema,
                                        originalOperationCount |-> r.originalOperationCount,
                                        reducedOperationCount |-> r.reducedOperationCount,
                                        sizeBytes |-> r.sizeBytes,
                                        operations |-> r.operations]
                          /\ locals' = [prioritizedOps |-> r.prioritizedOps,
                                        selectedOps |-> r.selectedOps,
                                        built |-> r.built,
                                        given |-> r.given,
                                        sizeGiven |-> r.sizeGiven,
                                        self |-> r.self]
                   /\ pc' = "validate"
                   /\ effects' = [effects EXCEPT !.log = checked.log]
    /\ UNCHANGED <<input, original, selection>>

\* (mutant) the reduced document validated like the original one: a failure
\* is a warning and the run goes on
ValidateReducedWarnOnly ==
    /\ pc = "validate"
    /\ \E valid \in BOOLEAN :
           /\ cli' = [cli EXCEPT !.valid = <<valid>>]
           /\ pc' = "write"
           /\ UNCHANGED effects
    /\ UNCHANGED <<input, heap, original, opts, selection, locals, result>>

\* try { validateSchemaOrThrow(result.schema, 'Reduced schema') }
\* catch { logger.error(...); process.exit(1) }
\* The validator's verdict is the environment's.
ValidateReduced ==
    /\ pc = "validate"
    /\ \E valid \in BOOLEAN :
           /\ cli' = [cli EXCEPT !.valid = <<valid>>]
           /\ IF valid THEN pc' = "write" /\ UNCHANGED effects
              ELSE Exit(1)
    /\ UNCHANGED <<input, heap, original, opts, selection, locals, result>>

\* (mutant) a reduce or fetch run that gives up, writing nothing, when the
\* document is over the limit
WriteOutputWithinLimit ==
    /\ pc = "write"
    /\ IF /\ cli.command \in {"reduce", "fetch"}
          /\ greaterThan(result.sizeBytes, parseInt(cli.mergedOptions[1].size))
       THEN Exit(1)
       ELSE /\ effects' = [files |-> Append(effects.files,
                                            [path |-> cli.mergedOptions[1].output,
                                             content |-> Deref(result.schema, heap)]),
                           exitCode |-> <<0>>,
                           log |-> effects.log]
            /\ pc' = "done"
    /\ UNCHANGED <<input, heap, original, opts, selection, locals, result, cli>>

\* fs.writeFileSync(path.resolve(mergedOptions.output), JSON.stringify(result.schema, null, 2))
\* and the rest of the handler, which only logs: in the reduce and fetch
\* commands a warning when result.sizeBytes > parseInt(mergedOptions.size)
WriteOutput ==
    /\ pc = "write"
    /\ effects' = [files |-> Append(effects.files,
                                    [path |-> cli.mergedOptions[1].output,
                                     content |-> Deref(result.schema, heap)]),
                   exitCode |-> <<0>>,
                   log |-> IF /\ cli.command \in {"reduce", "fetch"}
                              /\ greaterThan(result.sizeBytes,
                                             parseInt(cli.mergedOptions[1].size))
                           THEN warn(effects.log, W_exceedsLimit)
                           ELSE effects.log]
    /\ pc' = "done"
    /\ UNCHANGED <<input, heap, original, opts, selection, locals, result, cli>>

\* sequences of 1..n distinct members of 1..m
Orders(m, n) ==
    {q \in UNION {[1..k -> 1..m] : k \in 1..n} :
        \A a, b \in 1..Len(q) : a # b => q[a] # q[b]}

(***************************************************************************)
(* Scoring and selection: documents that vary in paths, method keys and    *)
(* summaries; options that vary in maxActions, methodFilter, coreEntities. *)
(***************************************************************************)
MaxPathItems == 2
MaxActionsBound == 3

P_users == <<"/","u","s","e","r","s">>
P_usersId == <<"/","u","s","e","r","s","/","{","i","d","}">>
P_UsersSettings == <<"/","U","s","e","r","s","/","s","e","t","t","i","n","g","s">>
P_pets == <<"/","p","e","t","s">>
PathCatalog == <<P_users, P_usersId, P_UsersSettings, P_pets>>

Summary10 == <<"L","i","s","t"," ","u","s","e","r","s">>
Summary11 == <<"L","i","s","t"," ","u","s","e","r","s",".">>
Summary3 == <<"A","d","d">>

Bare(summary) == Op(summary, <<>>, <<>>, <<>>, <<>>, <<>>)
Method(method, operation) == [method |-> method, operation |-> operation]

MethodLists == <<
    <<Method(M_get, Bare(Summary11)), Method(M_post, Bare(Summary3))>>,
    <<Method(<<"D","E","L","E","T","E">>, Bare(<<>>)), Method(<<"G","E","T">>, Bare(Summary10))>>,
    <<Method(<<"h","e","a","d">>, Bare(Summary11)), Method(M_put, Bare(Summary11)),
      Method(M_patch, Bare(Summary11)), Method(T_parameters, Bare(<<>>))>>
    >>

SelectDoc(order, lists) ==
    [openapi |-> Version,
     shell |-> [NoShell EXCEPT !.info = <<Leaf>>],
     paths |-> [i \in 1..Len(order) |->
                  [path |-> PathCatalog[order[i]], methods |-> MethodLists[lists[i]]]],
     schemas |-> <<>>]

MethodFilters == {<<>>, <<(<<M_get>>)>>, <<(<<(<<"G","E","T">>), M_post>>)>>}
CoreEntityLists == {<<>>, <<(<<(<<"p","e","t","s">>)>>)>>}

InitSelect ==
    \E order \in Orders(Len(PathCatalog), MaxPathItems) :
    \E lists \in [1..Len(order) -> 1..Len(MethodLists)] :
    \E maxActions \in {<<>>} \cup {<<n>> : n \in 0..MaxActionsBound} :
    \E methodFilter \in MethodFilters :
    \E coreEntities \in CoreEntityLists :
        Start(SelectDoc(order, lists),
              [NoOptions EXCEPT !.maxActions = maxActions,
                                !.methodFilter = methodFilter,
                                !.coreEntities = coreEntities],
              <<>>)

NextSelect == Reduce \/ ReduceAgain
SpecSelect == InitSelect /\ [][NextSelect]_vars

(***************************************************************************)
(* Closure and inlining: documents that vary in the graph of their         *)
(* component schemas (chains, self-references, cycles) and in what their   *)
(* operations reference.                                                   *)
(***************************************************************************)
MaxClosureOps == 2

SchemaNames == <<(<<"A">>), (<<"B">>), (<<"C">>)>>
RefSchema(name) == SchemasPrefix \o name
RefParameter(name) == ComponentsPrefix \o T_parameters \o <<"/">> \o name
RefResponse(name) == ComponentsPrefix \o T_responses \o <<"/">> \o name
RefExternal == <<"#","/","d","e","f","i","n","i","t","i","o","n","s","/","X">>
Holder(kids) == Obj(<<>>, <<>>, FALSE, kids)

\* edges[k] = 0: schema k references nothing; else it references schema edges[k]
GraphSchemas(edges) ==
    [k \in 1..Len(SchemaNames) |->
        Entry(SchemaNames[k],
              Holder(IF edges[k] = 0 THEN <<>>
                     ELSE <<Holder(<<RefTo(RefSchema(SchemaNames[edges[k]]))>>)>>))]

\* every graph in which the last schema references nothing or the first schema
SchemaGraphs ==
    {edges \in [1..Len(SchemaNames) -> 0..Len(SchemaNames)] :
        edges[Len(SchemaNames)] \in {0, 1}}

ClosureShell ==
    [NoShell EXCEPT
        !.info = <<Leaf>>,
        !.servers = <<Leaf>>,
        !.security = <<Leaf>>,
        !.tags = <<Leaf>>,
        !.securitySchemes = <<(<<Entry(<<"K">>, Leaf)>>)>>,
        !.parameters = <<(<<Entry(<<"P">>, Holder(<<RefTo(RefSchema(<<"C">>))>>))>>)>>,
        !.responses = <<(<<Entry(<<"R">>, Holder(<<RefTo(RefSchema(<<"B">>))>>))>>)>>]

\* what an operation references
OperationPatterns == <<
    Op(Summary3, <<>>, <<>>, <<>>, <<>>, <<Holder(<<RefTo(RefSchema(<<"A">>))>>)>>),
    Op(Summary3, <<>>, <<>>, <<>>, <<Holder(<<RefTo(RefSchema(<<"B">>))>>)>>,
       <<Holder(<<RefTo(RefSchema(<<"A">>)), RefTo(RefSchema(<<"A">>))>>)>>),
    Op(Summary3, <<>>, <<>>, <<Holder(<<RefTo(RefParameter(<<"P">>))>>)>>, <<>>,
       <<Holder(<<RefTo(RefResponse(<<"R">>))>>)>>),
    Op(Summary3, <<>>, <<>>, <<>>, <<Holder(<<RefTo(RefSchema(<<"C">>))>>)>>,
       <<Holder(<<RefTo(RefExternal), RefTo(RefExternal)>>)>>),
    Op(Summary3, <<>>, <<>>, <<>>, <<>>, <<Holder(<<Leaf>>)>>),
    Op(Summary3, <<>>, <<>>, <<>>, <<>>,
       <<Holder(<<RefTo(RefSchema(<<"Z">>)), RefTo(RefSchema(<<"Z">>))>>)>>)
    >>
SecondPatterns == {1}
ClosureMethods == <<M_get, M_post, M_put, M_delete>>

ClosureDoc(edges, patterns) ==
    [openapi |-> Version,
     shell |-> ClosureShell,
     paths |-> [i \in 1..Len(patterns) |->
                  [path |-> PathCatalog[i],
                   methods |-> <<Method(ClosureMethods[i], OperationPatterns[patterns[i]])>>]],
     schemas |-> GraphSchemas(edges)]

\* extractOperationGroups' OperationInfo records: for each path in declared
\* order, for each of the five verbs in the order of httpMethods, the
\* operation under exactly that key
RECURSIVE OperationInfosFrom(_, _, _)
OperationInfosFrom(v, i, m) ==
    IF i > Len(v.paths) THEN <<>>
    ELSE IF m > Len(HTTP_METHODS) THEN OperationInfosFrom(v, i + 1, 1)
    ELSE LET at == {j \in 1..Len(v.paths[i].methods) :
                        v.paths[i].methods[j].method = HTTP_METHODS[m]}
         IN  (IF at = {} THEN <<>>
              ELSE <<[path |-> v.paths[i].path,
                      method |-> toUpperCase(HTTP_METHODS[m]),
                      operation |-> LoadDoc(v).paths[i].methods[CHOOSE j \in at : TRUE].operation]>>)
             \o OperationInfosFrom(v, i, m + 1)

AllOperationInfos(v) == OperationInfosFrom(v, 1, 1)

\* the selections a user can end with: every operation, or the last one alone
Selections(v) ==
    LET all == AllOperationInfos(v)
    IN  {all, SubSeq(all, Len(all), Len(all))}

InitClosure ==
    \E edges \in SchemaGraphs :
    \E patterns \in {q \in UNION {[1..k -> 1..Len(OperationPatterns)] : k \in 1..MaxClosureOps} :
                        \A i \in 2..Len(q) : q[i] \in SecondPatterns} :
    \E maxActions \in {<<>>, <<1>>} :
    \E resolve \in {<<>>, <<TRUE>>} :
        LET v == ClosureDoc(edges, patterns)
        IN  \E selected \in Selections(v) :
                Start(v,
                      [NoOptions EXCEPT !.maxActions = maxActions, !.resolveRefs = resolve],
                      selected)

NextClosure == Reduce \/ ResolveReferences \/ BuildSchemaFromSelections
SpecClosure == InitClosure /\ [][NextClosure]_vars

(***************************************************************************)
(* Size and mutation: documents that vary in their examples and in the     *)
(* length of their descriptions, around maxDescriptionLength.              *)
(***************************************************************************)
MaxDescription == 6

Letters == <<"a","b","c","d","e","f","g","h","i","j","k","l","m">>
Text(n) == SubSeq(Letters, 1, n)
DescriptionLengths == {0, MaxDescription \div 2, MaxDescription}
DescriptionLimits == {<<(MaxDescription \div 2) - 1>>, <<MaxDescription - 1>>}

SizeDoc(dInfo, dOp, dA, exResponses, exA) ==
    [openapi |-> Version,
     shell |-> [NoShell EXCEPT !.info = <<Obj(<<>>, Text(dInfo), FALSE, <<>>)>>],
     paths |-> <<[path |-> P_users,
                  methods |-> <<Method(M_get,
                      Op(Summary3, Text(dOp), <<>>, <<>>, <<>>,
                         <<Obj(<<>>, <<>>, exResponses, <<RefTo(RefSchema(<<"A">>))>>)>>))>>],
                 [path |-> P_pets,
                  methods |-> <<Method(M_post, Op(Summary3, <<>>, <<>>, <<>>, <<>>, <<Leaf>>))>>]>>,
     schemas |-> <<Entry(<<"A">>, Obj(<<>>, Text(dA), exA, <<>>)), Entry(<<"B">>, Leaf)>>]

\* a budget that the largest document of the family misses and the smallest meets
SizeBudget ==
    (JsonSize(SizeDoc(0, 0, 0, FALSE, FALSE))
     + JsonSize(SizeDoc(MaxDescription, MaxDescription, MaxDescription, TRUE, TRUE))) \div 2

InitSize ==
    \E dInfo \in {0, MaxDescription} :
    \E dOp \in DescriptionLengths :
    \E dA \in DescriptionLengths :
    \E exResponses \in BOOLEAN :
    \E exA \in BOOLEAN :
    \E maxSizeBytes \in {<<0>>, <<SizeBudget>>, <<>>} :
    \E includeExamples \in {<<>>, <<TRUE>>} :
    \E maxDescriptionLength \in DescriptionLimits :
    \E resolve \in {<<>>, <<TRUE>>} :
        LET v == SizeDoc(dInfo, dOp, dA, exResponses, exA)
        IN  \E selected \in Selections(v) :
                Start(v,
                      [NoOptions EXCEPT !.maxSizeBytes = maxSizeBytes,
                                        !.includeExamples = includeExamples,
                                        !.maxDescriptionLength = maxDescriptionLength,
                                        !.resolveRefs = resolve],
                      selected)

NextSize == Reduce \/ BuildSchemaFromSelections
SpecSize == InitSize /\ [][NextSize]_vars

(***************************************************************************)
(* wizard.ts: extractOperationGroups and runWizard                         *)
(***************************************************************************)
\* String.localeCompare on the characters the documents here are written in:
\* punctuation sorts before letters (braces before the slash, as in the root
\* collation), a proper prefix before its extensions
CollationOrder ==
    <<"{", "}", "/", "a", "b", "c", "d", "e", "f", "g", "h", "i", "j", "k", "l", "m",
      "n", "o", "p", "q", "r", "s", "t", "u", "v", "w", "x", "y", "z">>
Rank(c) == CHOOSE i \in 1..Len(CollationOrder) : CollationOrder[i] = c

RECURSIVE localeCompare(_, _)
localeCompare(a, b) ==
    IF a = <<>> THEN (IF b = <<>> THEN 0 ELSE 0 - 1)
    ELSE IF b = <<>> THEN 1
    ELSE IF a[1] = b[1] THEN localeCompare(Tail(a), Tail(b))
    ELSE IF Rank(a[1]) < Rank(b[1]) THEN 0 - 1 ELSE 1

\* Array.prototype.sort with a comparator: stable
sortWith(q, Compare(_, _)) ==
    LET place(i) ==
            1 + Cardinality({j \in 1..Len(q) :
                    \/ Compare(q[j], q[i]) < 0
                    \/ Compare(q[j], q[i]) = 0 /\ j < i})
    IN  [p \in 1..Len(q) |-> q[CHOOSE i \in 1..Len(q) : place(i) = p]]

\* (mutant) a tag that is the path's first segment, a parameter or not
deriveTagFirstSegment(path) ==
    LET parts == SelectSeq(split(path, "/"), LAMBDA p : p # <<>>)
    IN  IF parts = <<>> THEN <<"r", "o", "o", "t">>
        ELSE SelectSeq(parts[1], LAMBDA c : c \notin {"{", "}"})

T_root == <<"r", "o", "o", "t">>

deriveTagFromPath(path) ==
    LET parts == SelectSeq(split(path, "/"), LAMBDA p : p # <<>>)
        plain == {i \in 1..Len(parts) : parts[i][1] # "{"}
    IN  IF parts = <<>> THEN T_root
        ELSE IF plain # {} THEN parts[CHOOSE i \in plain : \A j \in plain : i <= j]
        ELSE SelectSeq(parts[1], LAMBDA c : c \notin {"{", "}"})

methodOrder == <<(<<"G","E","T">>), (<<"P","O","S","T">>), (<<"P","U","T">>),
                 (<<"P","A","T","C","H">>), (<<"D","E","L","E","T","E">>)>>
indexOf(q, x) ==
    LET at == {i \in 1..Len(q) : q[i] = x}
    IN  IF at = {} THEN 0 - 1 ELSE (CHOOSE i \in at : \A j \in at : i <= j) - 1

RECURSIVE flat(_)
flat(qs) == IF qs = <<>> THEN <<>> ELSE Head(qs) \o flat(Tail(qs))

\* the tags in the order a Map comes to hold them
RECURSIVE firstSeen(_, _)
firstSeen(q, seen) ==
    IF q = <<>> THEN seen
    ELSE firstSeen(Tail(q), IF arrayIncludes(seen, Head(q)) THEN seen ELSE Append(seen, Head(q)))

extractOperationGroups(v, h) ==
    LET found == AllOperationInfos(v)
        infos == [n \in 1..Len(found) |->
                    LET tags == At(h, found[n].operation).tags
                    IN  [path |-> found[n].path,
                         method |-> found[n].method,
                         operation |-> found[n].operation,
                         tag |-> IF tags # <<>> /\ tags[1] # <<>> THEN tags[1]
                                 ELSE deriveTagFromPath(found[n].path)]]
        tagsSeen == firstSeen([n \in 1..Len(infos) |-> infos[n].tag], <<>>)
        byPathThenMethod(a, b) ==
            LET pathCompare == localeCompare(a.path, b.path)
            IN  IF pathCompare # 0 THEN pathCompare
                ELSE indexOf(methodOrder, a.method) - indexOf(methodOrder, b.method)
        byTag(a, b) == localeCompare(a.tag, b.tag)
        groups == [g \in 1..Len(tagsSeen) |->
                     [tag |-> tagsSeen[g],
                      operations |-> sortWith(SelectSeq(infos, LAMBDA o : o.tag = tagsSeen[g]),
                                              byPathThenMethod)]]
    IN  sortWith(groups, byTag)

\* what a checkbox prompt answers: the chosen members, in the order of the choices
RECURSIVE pick(_, _)
pick(q, chosen) ==
    IF q = <<>> THEN <<>>
    ELSE pick(SubSeq(q, 1, Len(q) - 1), chosen)
         \o (IF Len(q) \in chosen THEN <<q[Len(q)]>> ELSE <<>>)

\* groups.filter((g) => state.selectedTags.includes(g.tag))
selectedGroups(groups, selectedTags) ==
    SelectSeq(groups, LAMBDA g : arrayIncludes(selectedTags, g.tag))

operationsOf(groups) == flat([g \in 1..Len(groups) |-> groups[g].operations])

\* the answers to one checkbox prompt per group
Picks(groups) ==
    {c \in [1..Len(groups) -> SUBSET (1..Len(operationsOf(groups)))] :
        \A g \in 1..Len(groups) : c[g] \subseteq 1..Len(groups[g].operations)}
picked(groups, c) == flat([g \in 1..Len(groups) |-> pick(groups[g].operations, c[g])])

\* The wizard command, from the start of .action() to the first prompt of
\* runWizard: loadConfig, mergeConfig, reading the document (a failure throws
\* and the handler's catch exits with 1), validation of the original,
\* extractOperationGroups; step = 1.
WizardCommand ==
    /\ pc = "cli"
    /\ cli.command = "wizard"
    /\ \E loaded \in BOOLEAN :
       \E originalValid \in IF loaded THEN BOOLEAN ELSE {TRUE} :
       \E checked \in {validateOriginal(originalValid, effects.log)} :
       \E mergedOptions \in {mergeConfig(cli.options, cli.config)} :
           /\ cli' = [cli EXCEPT !.mergedOptions = <<mergedOptions>>,
                                 !.loaded = <<loaded>>,
                                 !.originalValid = IF loaded THEN <<originalValid>> ELSE <<>>]
           /\ IF ~loaded \/ checked.thrown
              THEN /\ pc' = "exited"
                   /\ effects' = [effects EXCEPT !.exitCode = <<1>>, !.log = checked.log]
                   /\ UNCHANGED <<locals, opts>>
              ELSE /\ opts' = wizardOptions(mergedOptions)
                   /\ locals' = [groups |-> extractOperationGroups(original, heap),
                                 step |-> 1,
                                 state |-> [mode |-> <<>>, selectedTags |-> <<>>, refine |-> <<>>],
                                 action |-> <<>>,
                                 proceed |-> <<>>]
                   /\ pc' = "prompt"
                   /\ effects' = [effects EXCEPT !.log = checked.log]
    /\ UNCHANGED <<input, heap, original, selection, result>>

\* the prompt is asked again, or the next one is
Prompting == UNCHANGED <<pc, selection, heap, result, effects>>

\* the selection prompts are over: control is at `if (selectedOperations.length === 0)`
Selected(selectedOperations) ==
    /\ selection' = selectedOperations
    /\ pc' = "selected"
    /\ UNCHANGED <<heap, result, effects>>

\* runWizard once the selection is made: without operations it exits with 0,
\* otherwise it builds the result, shows the summary and asks for confirmation
BuildSelected ==
    /\ pc = "selected"
    /\ IF selection = <<>>
       THEN /\ Exit(0)
            /\ UNCHANGED <<heap, result>>
       ELSE /\ \E r \in {buildSchemaFromSelections(input, selection, opts, heap)} :
                   /\ heap' = r.heap
                   /\ result' = [schema |-> r.schema,
                                 originalOperationCount |-> r.originalOperationCount,
                                 reducedOperationCount |-> r.reducedOperationCount,
                                 sizeBytes |-> r.sizeBytes,
                                 operations |-> r.operations]
            /\ pc' = "confirm"
            /\ UNCHANGED effects
    /\ UNCHANGED <<input, original, opts, selection, locals, cli>>

\* Step 1: the mode prompt, whose only action is Continue
PromptMode ==
    /\ pc = "prompt"
    /\ locals.step = 1
    /\ \E mode \in {"groups", "individual", "all"} :
       \E all \in {operationsOf(locals.groups)} :
           /\ locals' = [locals EXCEPT !.state.mode = <<mode>>, !.step = 2,
                                       !.action = <<"continue">>]
           /\ IF mode = "all" THEN Selected(all) ELSE Prompting
    /\ UNCHANGED <<input, original, opts, cli>>

\* the groups the step-2 prompt shows checked
checkedTags(l) ==
    SelectSeq([g \in 1..Len(l.groups) |-> l.groups[g].tag],
              LAMBDA tag : l.state.selectedTags # <<>>
                           /\ arrayIncludes(l.state.selectedTags[1], tag))

\* Step 2: the group checkboxes and Continue / Go back.  After `step = 1` the
\* loop over steps 2 to 4 ends with nothing selected: the selection prompts
\* are over.
PromptGroups ==
    /\ pc = "prompt"
    /\ locals.state.mode = <<"groups">>
    /\ locals.step = 2
    /\ \E chosen \in SUBSET (1..Len(locals.groups)) :
       \E action \in {"continue", "back"} :
           LET selectedTags == pick([g \in 1..Len(locals.groups) |-> locals.groups[g].tag], chosen)
           IN  IF action = "back"
               THEN /\ locals' = [locals EXCEPT !.step = 1, !.action = <<action>>]
                    /\ Selected(<<>>)
               ELSE IF selectedTags = <<>>
               THEN /\ locals' = [locals EXCEPT !.action = <<action>>]
                    /\ Prompting
               ELSE /\ locals' = [locals EXCEPT !.state.selectedTags = <<selectedTags>>,
                                                !.step = 3, !.action = <<action>>]
                    /\ Prompting
    /\ UNCHANGED <<input, original, opts, cli>>

\* Step 3: the refine confirmation and Continue / Go back
PromptRefine ==
    /\ pc = "prompt"
    /\ locals.state.mode = <<"groups">>
    /\ locals.step = 3
    /\ \E refine \in BOOLEAN :
       \E action \in {"continue", "back"} :
       \E selectedOperations \in {operationsOf(selectedGroups(locals.groups,
                                                              locals.state.selectedTags[1]))} :
           IF action = "back"
           THEN /\ locals' = [locals EXCEPT !.step = 2, !.action = <<action>>]
                /\ Prompting
           ELSE IF refine
           THEN /\ locals' = [locals EXCEPT !.state.refine = <<refine>>, !.step = 4,
                                            !.action = <<action>>]
                /\ Prompting
           ELSE /\ locals' = [locals EXCEPT !.state.refine = <<refine>>, !.step = 5,
                                            !.action = <<action>>]
                /\ Selected(selectedOperations)
    /\ UNCHANGED <<input, original, opts, cli>>

\* Step 4: one checkbox prompt per selected group, then Continue / Go back
PromptOperations ==
    /\ pc = "prompt"
    /\ locals.state.mode = <<"groups">>
    /\ locals.step = 4
    /\ \E chosen \in {selectedGroups(locals.groups, locals.state.selectedTags[1])} :
       \E c \in Picks(chosen) :
       \E refinedOperations \in {picked(chosen, c)} :
       \E action \in {"continue", "back"} :
           IF action = "back"
           THEN /\ locals' = [locals EXCEPT !.step = 3, !.action = <<action>>]
                /\ Prompting
           ELSE /\ locals' = [locals EXCEPT !.step = 5, !.action = <<action>>]
                /\ Selected(refinedOperations)
    /\ UNCHANGED <<input, original, opts, cli>>

\* Individual mode: one checkbox prompt per group
PromptIndividual ==
    /\ pc = "prompt"
    /\ locals.state.mode = <<"individual">>
    /\ \E c \in Picks(locals.groups) :
       \E selectedOperations \in {picked(locals.groups, c)} :
           /\ locals' = [locals EXCEPT !.action = <<>>]
           /\ Selected(selectedOperations)
    /\ UNCHANGED <<input, original, opts, cli>>

\* (mutant) a confirmation whose answer is not looked at
PromptProceedAnyway ==
    /\ pc = "confirm"
    /\ \E proceed \in BOOLEAN :
           /\ locals' = [locals EXCEPT !.proceed = <<proceed>>]
           /\ pc' = "validate"
           /\ UNCHANGED effects
    /\ UNCHANGED <<input, heap, original, opts, selection, result, cli>>

\* the confirmation: declined, the wizard exits with 0; confirmed, runWizard
\* returns the result to the wizard command
PromptProceed ==
    /\ pc = "confirm"
    /\ \E proceed \in BOOLEAN :
           /\ locals' = [locals EXCEPT !.proceed = <<proceed>>]
           /\ IF proceed THEN pc' = "validate" /\ UNCHANGED effects
              ELSE Exit(0)
    /\ UNCHANGED <<input, heap, original, opts, selection, result, cli>>

(***************************************************************************)
(* Command runs: a document of three operations in two groups; command     *)
(* lines that pass or omit each option; no config file, or one of two.     *)
(***************************************************************************)
ConfigMaxActions == 1
ConfigMaxSizeBytes == 0
ConfigMaxDescriptionLength == 3

T_animals == <<"a","n","i","m","a","l","s">>
T_inJson == <<"i","n",".","j","s","o","n">>
T_outJson == <<"o","u","t",".","j","s","o","n">>
T_apiJson == <<"a","p","i",".","j","s","o","n">>
T_url == <<"h","t","t","p",":","/","/","h","/","a","p","i">>

CliDoc ==
    [openapi |-> Version,
     shell |-> [NoShell EXCEPT !.info = <<Obj(<<>>, Text(MaxDescription), FALSE, <<>>)>>],
     paths |-> <<[path |-> P_users,
                  methods |-> <<Method(M_post, Bare(Summary3)),
                                Method(M_get,
                      Op(Summary10, Text(MaxDescription), <<>>, <<>>, <<>>,
                         <<Obj(<<>>, <<>>, TRUE, <<RefTo(RefSchema(<<"A">>))>>)>>))>>],
                 [path |-> P_pets,
                  methods |-> <<Method(M_get,
                      Op(Summary3, <<>>, <<T_animals>>, <<>>, <<>>, <<Leaf>>))>>]>>,
     schemas |-> <<Entry(<<"A">>, Obj(<<>>, Text(MaxDescription), TRUE, <<>>)),
                   Entry(<<"B">>, Leaf)>>]

\* what `spec-shaver init` writes, with values of this family
ConfigDefault ==
    [maxActions |-> ConfigMaxActions,
     maxSizeBytes |-> ConfigMaxSizeBytes,
     coreEntities |-> <<(<<"p","e","t","s">>)>>,
     includeExamples |-> TRUE,
     maxDescriptionLength |-> ConfigMaxDescriptionLength,
     output |-> T_apiJson]

\* a hand-written config file
ConfigMethods ==
    [methods |-> <<"g","e","t",","," ","P","O","S","T">>,
     maxDescriptionLength |-> ConfigMaxDescriptionLength]

Configs == {<<>>, <<ConfigDefault>>, <<ConfigMethods>>}

\* the command lines of a command: the required option, and any of the others
Passed(command) ==
    LET required == IF command = "fetch" THEN [url |-> T_url] ELSE [input |-> T_inJson]
        optional == IF command = "wizard"
                    THEN [output |-> T_outJson, includeExamples |-> TRUE]
                    ELSE [output |-> T_outJson, includeExamples |-> TRUE,
                          actions |-> <<"2">>, size |-> <<"0">>,
                          methods |-> <<"G","E","T">>]
    IN  {[k \in DOMAIN required \cup given |->
            IF k \in DOMAIN required THEN required[k] ELSE optional[k]] :
         given \in SUBSET DOMAIN optional}

Commands == {"reduce", "fetch", "wizard"}

InitCli ==
    \E command \in Commands :
    \E argv \in Passed(command) :
    \E config \in Configs :
        /\ input = LoadDoc(CliDoc)
        /\ heap = LoadHeap(CliDoc)
        /\ original = CliDoc
        /\ opts = NoOptions
        /\ selection = <<>>
        /\ pc = "cli"
        /\ locals = <<>>
        /\ result = <<>>
        /\ cli = [command |-> command, argv |-> argv,
                  options |-> parseOptions(command, argv),
                  config |-> config, mergedOptions |-> <<>>,
                  loaded |-> <<>>, originalValid |-> <<>>, valid |-> <<>>]
        /\ effects = NoEffects

NextCli ==
    \/ ReduceCommand
    \/ WizardCommand
    \/ PromptMode
    \/ PromptGroups
    \/ PromptRefine
    \/ PromptOperations
    \/ PromptIndividual
    \/ BuildSelected
    \/ PromptProceed
    \/ ValidateReduced
    \/ WriteOutput
SpecCli == InitCli /\ [][NextCli]_vars

(***************************************************************************)
(* Grouping: documents that vary in their paths (plain, parameterised,     *)
(* all-parameter, empty), in the keys of their path items and in the tags  *)
(* of their operations.                                                    *)
(***************************************************************************)
MaxGroupPaths == 2

P_idPets == <<"/","{","i","d","}","/","p","e","t","s">>
P_id == <<"/","{","i","d","}">>
P_slash == <<"/">>
GroupPaths == <<P_users, P_usersId, P_pets, P_idPets, P_id, P_slash>>

T_users == <<"u","s","e","r","s">>
Tagged(tags) == Op(Summary3, <<>>, tags, <<>>, <<>>, <<>>)

GroupMethodLists == <<
    <<Method(M_post, Tagged(<<>>)), Method(M_get, Tagged(<<>>))>>,
    <<Method(M_delete, Tagged(<<T_animals>>)), Method(M_get, Tagged(<<T_users>>))>>,
    <<Method(<<"G","E","T">>, Tagged(<<>>)), Method(M_put, Tagged(<<(<<>>)>>))>>,
    <<Method(<<"h","e","a","d">>, Tagged(<<>>)), Method(M_patch, Tagged(<<T_animals, T_users>>))>>
    >>

GroupDoc(order, lists) ==
    [openapi |-> Version,
     shell |-> [NoShell EXCEPT !.info = <<Leaf>>],
     paths |-> [i \in 1..Len(order) |->
                  [path |-> GroupPaths[order[i]], methods |-> GroupMethodLists[lists[i]]]],
     schemas |-> <<>>]

\* extractOperationGroups(schema)
ExtractOperationGroups ==
    /\ pc = "init"
    /\ locals' = [groups |-> extractOperationGroups(original, heap)]
    /\ pc' = "grouped"
    /\ UNCHANGED <<input, heap, original, opts, selection, result, cli, effects>>

InitGroups ==
    \E order \in Orders(Len(GroupPaths), MaxGroupPaths) :
    \E lists \in [1..Len(order) -> 1..Len(GroupMethodLists)] :
        Start(GroupDoc(order, lists), NoOptions, <<>>)

NextGroups == ExtractOperationGroups
SpecGroups == InitGroups /\ [][NextGroups]_vars

(***************************************************************************)
(* Vocabulary of the claims                                                *)
(***************************************************************************)
Verbs == {M_get, M_post, M_put, M_patch, M_delete}
Options == constructor(opts)

\* the operations of value document v, as <<path index, method index>> in declared order
DeclaredOps(v) == Walk(v.paths, 1, 1)
PathOf(v, ij) == v.paths[ij[1]].path
MethodOf(v, ij) == v.paths[ij[1]].methods[ij[2]].method
OperationOf(v, ij) == v.paths[ij[1]].methods[ij[2]].operation
Eligible(v) == {ij \in OpIndex(v.paths) : toLowerCase(MethodOf(v, ij)) \in Verbs}
PassesFilter(v, ij) ==
    \/ Options.methodFilter = <<>>
    \/ \E k \in 1..Len(Options.methodFilter[1]) :
          Options.methodFilter[1][k] = toLowerCase(MethodOf(v, ij))
\* where a listed operation stands in the declared order of the original
DeclaredPos(p) ==
    CHOOSE n \in 1..Len(DeclaredOps(original)) :
        /\ PathOf(original, DeclaredOps(original)[n]) = p.path
        /\ MethodOf(original, DeclaredOps(original)[n]) = p.method
Kept(doc) == {<<doc.paths[ij[1]].path, doc.paths[ij[1]].methods[ij[2]].method>> :
                ij \in OpIndex(doc.paths)}
MinOf(a, b) == IF a < b THEN a ELSE b

(***************************************************************************)
(* C3  reduce never mutates its input.                                     *)
(***************************************************************************)
\* C3: after reduce, whatever the options, the caller's document is equal to
\* the document before the call.
C3_InputUnchanged ==
    pc = "reduced" => Deref(input, heap) = original

\* C3 witness: an over-budget document with examples and long descriptions was
\* resolved, stripped of its examples and truncated
C3_Witness ==
    /\ pc = "reduced"
    /\ Options.resolveRefs
    /\ ~Options.includeExamples
    /\ result.sizeBytes > Options.maxSizeBytes
    /\ \E ij \in OpIndex(result.schema.paths) :
          LET given == OperationOf(original, DeclaredOps(original)[ij[1]])
              returned == At(heap, result.schema.paths[ij[1]].methods[ij[2]].operation)
          IN  /\ given.responses[1].example
              /\ ~returned.responses[1].example
              /\ Len(given.description) > Options.maxDescriptionLength
              /\ returned.description = substring0(given.description,
                                                   Options.maxDescriptionLength) \o Ellipsis

(***************************************************************************)
(* C4  buildSchemaFromSelections never mutates the original.               *)
(***************************************************************************)
\* C4 as stated: after buildSchemaFromSelections, whatever the selection and
\* the options, the original document, its operations and its component
\* entries are unchanged.
C4_AsStated ==
    pc = "built" => Deref(input, heap) = original

(***************************************************************************)
(* C7  Size monotonicity of optimizeSize.                                  *)
(***************************************************************************)
\* C7 as stated: the serialized size of the document optimizeSize returns is
\* at most the serialized size of the document it was given.
C7_AsStated ==
    pc = "reduced" => result.sizeBytes <= locals.sizeGiven

C6_SelectionOrder ==
    pc = "reduced" =>
        LET all == locals.prioritizedOps
            sel == locals.selectedOps
            passing == {ij \in Eligible(original) : PassesFilter(original, ij)}
        IN  /\ Len(all) = Cardinality(passing)
            /\ {<<all[n].path, all[n].method>> : n \in 1..Len(all)} =
                  {<<PathOf(original, ij), MethodOf(original, ij)>> : ij \in passing}
            /\ \A a, b \in 1..Len(all) :
                  a < b => \/ all[a].priority > all[b].priority
                           \/ /\ all[a].priority = all[b].priority
                              /\ DeclaredPos(all[a]) < DeclaredPos(all[b])
            /\ Len(sel) = MinOf(Options.maxActions, Len(all))
            /\ \A n \in 1..Len(sel) : sel[n] = all[n]
            /\ \A n \in 1..Len(sel) : \A m \in (Len(sel) + 1)..Len(all) :
                  sel[n].priority >= all[m].priority
            /\ Kept(result.schema) = {<<sel[n].path, sel[n].method>> : n \in 1..Len(sel)}

\* C6 witness: the cut fell between two operations of equal score on different paths
C6_Witness ==
    /\ pc = "reduced"
    /\ Len(locals.selectedOps) >= 1
    /\ Len(locals.selectedOps) < Len(locals.prioritizedOps)
    /\ LET n == Len(locals.selectedOps)
       IN  /\ locals.prioritizedOps[n].priority = locals.prioritizedOps[n + 1].priority
           /\ locals.prioritizedOps[n].path # locals.prioritizedOps[n + 1].path

(***************************************************************************)
(* C10  Priority score formula.                                            *)
(***************************************************************************)
MethodWeight(method) ==
    CASE toLowerCase(method) = M_get -> 50
      [] toLowerCase(method) = M_post -> 40
      [] toLowerCase(method) \in {M_put, M_patch} -> 30
      [] toLowerCase(method) = M_delete -> 20

\* C10: every listed operation's score is (100 if the lowercased path contains
\* '/' + some core entity, once, else 0) + the method weight + (15 without
\* '{' in the path, else 10) + (5 with a summary longer than 10 characters).
C10_ScoreFormula ==
    pc = "reduced" =>
        \A n \in 1..Len(locals.prioritizedOps) :
            LET p == locals.prioritizedOps[n]
                summary == OperationOf(original, DeclaredOps(original)[DeclaredPos(p)]).summary
                core == \E k \in 1..Len(Options.coreEntities) :
                            includes(toLowerCase(p.path), <<"/">> \o Options.coreEntities[k])
            IN  p.priority =
                    (IF core THEN 100 ELSE 0)
                    + MethodWeight(p.method)
                    + (IF \E c \in 1..Len(p.path) : p.path[c] = "{" THEN 10 ELSE 15)
                    + (IF Len(summary) > 10 THEN 5 ELSE 0)

\* C10 witness: GET /users/{id} scored 160 beside an operation whose path
\* matches two core entities
C10_Witness ==
    /\ pc = "reduced"
    /\ \E n, m \in 1..Len(locals.prioritizedOps) :
          /\ locals.prioritizedOps[n].path = P_usersId
          /\ toLowerCase(locals.prioritizedOps[n].method) = M_get
          /\ locals.prioritizedOps[n].priority = 160
          /\ locals.prioritizedOps[m].path = P_UsersSettings
          /\ locals.prioritizedOps[m].priority = 170

(***************************************************************************)
(* Vocabulary of the closure and inlining claims                           *)
(***************************************************************************)
\* the returned document as a value
Out == Deref(result.schema, heap)

NamesOf(m) == {m[i].name : i \in 1..Len(m)}
OptRefs(x) == IF x = <<>> THEN {} ELSE refStrings(x[1])
OperationRefs(o) == OptRefs(o.parameters) \cup OptRefs(o.requestBody) \cup OptRefs(o.responses)
PathsRefs(v) == UNION {OperationRefs(OperationOf(v, ij)) : ij \in OpIndex(v.paths)}
MapRefs(m) == UNION {refStrings(m[i].body) : i \in 1..Len(m)}
ComponentMap(v, t) ==
    IF t = T_schemas THEN v.schemas
    ELSE IF t = T_parameters
    THEN (IF v.shell.parameters = <<>> THEN <<>> ELSE v.shell.parameters[1])
    ELSE (IF v.shell.responses = <<>> THEN <<>> ELSE v.shell.responses[1])
AllRefs(v) ==
    PathsRefs(v) \cup UNION {MapRefs(ComponentMap(v, t)) : t \in {T_schemas, T_parameters, T_responses}}

\* `#/components/<t>/<name>`
IsInto(r, t) ==
    /\ StartsAt(r, 1, ComponentsPrefix \o t \o <<"/">>)
    /\ Len(r) > Len(ComponentsPrefix) + Len(t) + 1
NameIn(r, t) == SubSeq(r, Len(ComponentsPrefix) + Len(t) + 2, Len(r))
Resolvable(r, v) ==
    \E t \in {T_schemas, T_parameters, T_responses} :
        IsInto(r, t) /\ NameIn(r, t) \in NamesOf(ComponentMap(v, t))
Dangling(r, v) ==
    \E t \in {T_schemas, T_parameters, T_responses} :
        IsInto(r, t) /\ NameIn(r, t) \notin NamesOf(ComponentMap(v, t))
SchemaTargets(refs) == {NameIn(r, T_schemas) : r \in {x \in refs : IsInto(x, T_schemas)}}

\* the schemas that `names` reach through the bodies of v's schemas, in n rounds
RECURSIVE SchemaClosure(_, _, _)
SchemaClosure(names, v, n) ==
    IF n = 0 THEN names
    ELSE SchemaClosure(
            names \cup SchemaTargets(MapRefs(SelectSeq(v.schemas, LAMBDA e : e.name \in names))),
            v, n - 1)
Reach(names, v) == SchemaClosure(names, v, Len(v.schemas))

\* the operations reduce selected, as the original declares them
SelectedOperations ==
    {OperationOf(original, DeclaredOps(original)[DeclaredPos(locals.selectedOps[n])]) :
        n \in 1..Len(locals.selectedOps)}

RECURSIVE Contains(_, _)
Contains(n, part) == n = part \/ \E i \in 1..Len(n.kids) : Contains(n.kids[i], part)

(***************************************************************************)
(* C1  Closure completeness of reduce.                                     *)
(***************************************************************************)
\* C1 as stated: when the input's schema references all resolve, the returned
\* components.schemas contains every schema the selected operations reference
\* directly or through the bodies of referenced schemas, and no schema
\* reference reachable from the output's paths is dangling.
C1_AsStated ==
    (/\ pc = "reduced"
     /\ \A r \in AllRefs(original) : IsInto(r, T_schemas) => Resolvable(r, original))
    =>
    /\ Reach(SchemaTargets(UNION {OperationRefs(o) : o \in SelectedOperations}), original)
          \subseteq NamesOf(Out.schemas)
    /\ Reach(SchemaTargets(PathsRefs(Out)), Out) \subseteq NamesOf(Out.schemas)

(***************************************************************************)
(* C2  Output closure over all component kinds.                            *)
(***************************************************************************)
\* C2 as stated: when every reference of the input into components/schemas,
\* components/parameters or components/responses resolves inside the input,
\* every such reference anywhere in the returned document resolves to an
\* entry of the returned document.
C2_AsStated ==
    (/\ pc = "reduced"
     /\ \A r \in AllRefs(original) : ~Dangling(r, original))
    =>
    \A r \in AllRefs(Out) : ~Dangling(r, Out)

(***************************************************************************)
(* C8  Inlining termination.                                               *)
(***************************************************************************)
\* the schemas on a cycle through schema `name`
CycleOf(name) ==
    LET after == Reach(SchemaTargets(MapRefs(SelectSeq(original.schemas,
                                                        LAMBDA e : e.name = name))),
                       original)
    IN  IF name \in after
        THEN {c \in after :
                name \in Reach(SchemaTargets(MapRefs(SelectSeq(original.schemas,
                                                               LAMBDA e : e.name = c))),
                               original)}
        ELSE {}

\* C8: resolveReferences terminates on every document, self-cycles and longer
\* cycles included; the resolved body of a schema on a cycle holds the
\* sentinel {type: 'object', description: 'Circular reference to <ref>'} for
\* the reference that closes the cycle and no reference into the cycle, and
\* so does what an operation's responses reference.
C8_InliningTerminates ==
    pc = "resolved" =>
        /\ ~locals.diverged
        /\ NamesOf(Out.schemas) = NamesOf(original.schemas)
        /\ \A k \in 1..Len(original.schemas) :
              LET cycle == CycleOf(original.schemas[k].name)
                  body == Out.schemas[k].body
              IN  cycle # {} =>
                    /\ \E r \in refStrings(original.schemas[k].body) :
                          /\ SchemaTargets({r}) \subseteq cycle
                          /\ Contains(body, Sentinel(r))
                    /\ SchemaTargets(refStrings(body)) \cap cycle = {}
        /\ \A ij \in OpIndex(original.paths) :
              LET given == OperationOf(original, ij).responses
                  cyclic == {c \in Reach(SchemaTargets(OptRefs(given)), original) :
                                CycleOf(c) # {}}
              IN  cyclic # {} =>
                    /\ \E c \in cyclic :
                          Contains(OperationOf(Out, ij).responses[1], Sentinel(RefSchema(c)))
                    /\ SchemaTargets(OptRefs(OperationOf(Out, ij).responses)) \cap cyclic = {}

\* C8 witness: A -> B -> C -> A was resolved, and the body of A ends in the
\* sentinel for the reference to B
C8_Witness ==
    /\ pc = "resolved"
    /\ CycleOf(<<"A">>) = {<<"A">>, <<"B">>, <<"C">>}
    /\ Contains(Out.schemas[1].body, Sentinel(RefSchema(<<"B">>)))
    /\ ~locals.diverged

(***************************************************************************)
(* C9  Inlining completeness.                                              *)
(***************************************************************************)
\* C9: after resolveReferences no reference that resolves to an entry of
\* components.schemas, components.parameters or components.responses remains
\* in an operation's responses, in an operation's requestBody or in a
\* components.schemas entry; a lone reference to a target that holds no
\* reference has become the target's content.
C9_InliningComplete ==
    pc = "resolved" =>
        /\ \A ij \in OpIndex(Out.paths) :
              \A r \in OptRefs(OperationOf(Out, ij).responses)
                         \cup OptRefs(OperationOf(Out, ij).requestBody) :
                  ~Resolvable(r, original)
        /\ \A r \in MapRefs(Out.schemas) : ~Resolvable(r, original)
        /\ \A ij \in OpIndex(original.paths) :
              LET given == OperationOf(original, ij).requestBody
              IN  \A k \in 1..Len(original.schemas) :
                     (/\ given = <<Holder(<<RefTo(RefSchema(original.schemas[k].name))>>)>>
                      /\ refStrings(original.schemas[k].body) = {})
                     => OperationOf(Out, ij).requestBody =
                            <<Holder(<<original.schemas[k].body>>)>>

\* C9 witness: an operation's responses referenced A, A referenced B, and the
\* resolved responses hold B's content and no reference
C9_Witness ==
    /\ pc = "resolved"
    /\ \E ij \in OpIndex(original.paths) :
          /\ OptRefs(OperationOf(original, ij).responses) = {RefSchema(<<"A">>)}
          /\ refStrings(original.schemas[1].body) = {RefSchema(<<"B">>)}
          /\ refStrings(original.schemas[2].body) = {}
          /\ OptRefs(OperationOf(Out, ij).responses) = {}
          /\ Contains(OperationOf(Out, ij).responses[1], original.schemas[2].body)

(***************************************************************************)
(* C11  Method eligibility.                                                *)
(***************************************************************************)
\* the <<path, method>> pairs of a list of records
PairsOf(list) == {<<list[n].path, list[n].method>> : n \in 1..Len(list)}
EligiblePairs == {<<PathOf(original, ij), MethodOf(original, ij)>> : ij \in Eligible(original)}

\* C11: a path-item entry whose key, lower-cased, is not get, post, put, patch
\* or delete is never scored, never counted in originalOperationCount or
\* reducedOperationCount and never appears in the reduced paths or in the
\* operations list; an entry whose key is one of the five verbs in any letter
\* case is eligible (it is scored whenever no method filter is configured).
C11_MethodEligibility ==
    pc = "reduced" =>
        /\ PairsOf(locals.prioritizedOps) \subseteq EligiblePairs
        /\ result.originalOperationCount = Cardinality(Eligible(original))
        /\ Kept(result.schema) \subseteq EligiblePairs
        /\ result.reducedOperationCount = Cardinality(Kept(result.schema))
        /\ \A n \in 1..Len(result.operations) :
              \E ij \in Eligible(original) :
                  /\ result.operations[n].path = PathOf(original, ij)
                  /\ result.operations[n].method = toUpperCase(MethodOf(original, ij))
        /\ opts.methodFilter = <<>> => PairsOf(locals.prioritizedOps) = EligiblePairs

\* C11 witness: a document with a head entry, a path-level parameters entry
\* and an upper-case GET entry was reduced, and the GET entry was kept
C11_Witness ==
    /\ pc = "reduced"
    /\ \E ij \in OpIndex(original.paths) : MethodOf(original, ij) = <<"h","e","a","d">>
    /\ \E ij \in OpIndex(original.paths) : MethodOf(original, ij) = T_parameters
    /\ \E kept \in Kept(result.schema) : kept[2] = <<"G","E","T">>
    /\ result.reducedOperationCount < Cardinality(OpIndex(original.paths))

(***************************************************************************)
(* C12  Method allow-list filter.                                          *)
(***************************************************************************)
\* the methods a configured filter allows, lower-cased; every verb without one
Allowed ==
    IF opts.methodFilter = <<>> THEN Verbs
    ELSE {toLowerCase(opts.methodFilter[1][k]) : k \in 1..Len(opts.methodFilter[1])}
AllowedPairs ==
    {<<PathOf(original, ij), MethodOf(original, ij)>> :
        ij \in {e \in Eligible(original) : toLowerCase(MethodOf(original, e)) \in Allowed}}

\* C12: with a methodFilter, every operation of the prioritized list, of the
\* reduced paths and of the operations list has a method in the filter
\* (case-insensitively); the others are excluded before scoring, so the
\* selection takes min(maxActions, allowed operations) entries, all allowed;
\* without a filter every eligible operation is considered.
C12_MethodFilter ==
    pc = "reduced" =>
        /\ PairsOf(locals.prioritizedOps) = AllowedPairs
        /\ Len(locals.prioritizedOps) = Cardinality(AllowedPairs)
        /\ Len(locals.selectedOps) = MinOf(Options.maxActions, Cardinality(AllowedPairs))
        /\ Kept(result.schema) = PairsOf(locals.selectedOps)
        /\ Kept(result.schema) \subseteq AllowedPairs
        /\ \A n \in 1..Len(result.operations) :
              toLowerCase(result.operations[n].method) \in Allowed
        /\ Len(result.operations) = Len(locals.selectedOps)

\* C12 witness: the filter ["GET", "post"] held eligible operations back and
\* every allowed operation fitted into maxActions
C12_Witness ==
    /\ pc = "reduced"
    /\ opts.methodFilter = <<(<<(<<"G","E","T">>), M_post>>)>>
    /\ Cardinality(AllowedPairs) < Cardinality(EligiblePairs)
    /\ Cardinality(AllowedPairs) >= 2
    /\ Len(locals.selectedOps) = Cardinality(AllowedPairs)
    /\ Options.maxActions = Cardinality(AllowedPairs)


(***************************************************************************)
(* C15  The Size Optimizer's short-circuit pipeline.                       *)
(***************************************************************************)
\* a value document with N applied to every object tree of it and D to every
\* operation's own description
OnTrees(v, N(_), D(_)) ==
    [openapi |-> v.openapi,
     shell |-> [k \in DOMAIN v.shell |->
                  IF v.shell[k] = <<>> THEN <<>>
                  ELSE IF k \in MapKeys
                  THEN <<[i \in 1..Len(v.shell[k][1]) |->
                            Entry(v.shell[k][1][i].name, N(v.shell[k][1][i].body))]>>
                  ELSE <<N(v.shell[k][1])>>],
     paths |-> [i \in 1..Len(v.paths) |->
                  [path |-> v.paths[i].path,
                   methods |-> [j \in 1..Len(v.paths[i].methods) |->
                       [method |-> v.paths[i].methods[j].method,
                        operation |->
                            LET o == v.paths[i].methods[j].operation
                            IN  [o EXCEPT !.description = D(@),
                                          !.parameters = IF @ = <<>> THEN <<>> ELSE <<N(@[1])>>,
                                          !.requestBody = IF @ = <<>> THEN <<>> ELSE <<N(@[1])>>,
                                          !.responses = IF @ = <<>> THEN <<>> ELSE <<N(@[1])>>]]]]],
     schemas |-> [k \in 1..Len(v.schemas) |-> Entry(v.schemas[k].name, N(v.schemas[k].body))]]

RECURSIVE NoExampleKeys(_)
NoExampleKeys(n) ==
    [ref |-> n.ref, type |-> n.type, description |-> n.description,
     example |-> FALSE, examples |-> FALSE,
     kids |-> [i \in 1..Len(n.kids) |-> NoExampleKeys(n.kids[i])]]

Shortened(d) ==
    IF d # <<>> /\ Len(d) > Options.maxDescriptionLength
    THEN SubSeq(d, 1, Options.maxDescriptionLength) \o <<".", ".", ".">>
    ELSE d

RECURSIVE ShortDescriptions(_)
ShortDescriptions(n) ==
    [ref |-> n.ref, type |-> n.type, description |-> Shortened(n.description),
     example |-> n.example, examples |-> n.examples,
     kids |-> [i \in 1..Len(n.kids) |-> ShortDescriptions(n.kids[i])]]

WithoutExamples(v) == OnTrees(v, NoExampleKeys, LAMBDA d : d)
WithShortDescriptions(v) == OnTrees(v, ShortDescriptions, Shortened)

\* the document optimizeSize was given
Given == Deref(locals.given, heap)

\* C15: optimizeSize returns the document it was given unchanged when its
\* serialized size is at most maxSizeBytes; otherwise, when includeExamples is
\* false, it deletes every example and examples key of the whole tree and
\* returns that, descriptions untouched, if it is within budget; descriptions
\* are truncated only when the document is still over budget after the example
\* step, or when that step was skipped because includeExamples is true.
C15_ShortCircuit ==
    pc = "reduced" =>
        LET max == Options.maxSizeBytes
            stripped == IF Options.includeExamples THEN Given ELSE WithoutExamples(Given)
        IN  /\ JsonSize(Given) <= max => /\ Out = Given
                                         /\ result.schema = locals.given
            /\ (JsonSize(Given) > max /\ ~Options.includeExamples
                    /\ JsonSize(stripped) <= max) => Out = stripped
            /\ (JsonSize(Given) > max
                    /\ (Options.includeExamples \/ JsonSize(stripped) > max)) =>
                   Out = WithShortDescriptions(stripped)

\* C15 witness: an over-budget document with examples and with descriptions
\* longer than maxDescriptionLength met the budget once its examples were
\* deleted, and was returned with every description as long as it was
C15_Witness ==
    /\ pc = "reduced"
    /\ ~Options.includeExamples
    /\ JsonSize(Given) > Options.maxSizeBytes
    /\ JsonSize(WithoutExamples(Given)) <= Options.maxSizeBytes
    /\ WithoutExamples(Given) # Given
    /\ WithShortDescriptions(Given) # Given
    /\ Out = WithoutExamples(Given)


(***************************************************************************)
(* C14  Pipeline order with reference inlining enabled.                    *)
(***************************************************************************)
\* the document the assembler built
Built == Deref(locals.built, heap)

\* the assembled document, optimized and then inlined
OptimizedThenInlined ==
    LET optimized == optimizeSize(locals.built, heap, Options)
        inlined == resolveReferences(optimized.doc, optimized.heap)
    IN  Deref(inlined.doc, inlined.heap)

\* the assembled document, inlined
Inlined ==
    LET inlined == resolveReferences(locals.built, heap)
    IN  Deref(inlined.doc, inlined.heap)

\* C14 as stated: with inlining enabled, the final document of reduce is what
\* the Reference Inliner makes of the Size Optimizer's output, and the Size
\* Optimizer was given the assembled document, not an inlined one.
C14_AsStated ==
    (pc = "reduced" /\ Options.resolveRefs) =>
        /\ Out = OptimizedThenInlined
        /\ Given = Built

\* C14, amended: with inlining enabled, reduce runs selection, assembly with
\* schema closure, then the Reference Inliner and only then the Size Optimizer,
\* whose output is the final document: the optimizer is given the inlined
\* document.  buildSchemaFromSelections removes the examples of the assembled
\* document first and inlines afterwards, and the inliner's output is final.
C14_InlineThenOptimize ==
    /\ (pc = "reduced" /\ Options.resolveRefs) =>
           /\ PairsOf(locals.selectedOps) = Kept(Built)
           /\ Given = Inlined
           /\ JsonSize(Given) = locals.sizeGiven
           /\ Out = IF JsonSize(Given) <= Options.maxSizeBytes THEN Given
                    ELSE IF ~Options.includeExamples
                            /\ JsonSize(WithoutExamples(Given)) <= Options.maxSizeBytes
                    THEN WithoutExamples(Given)
                    ELSE WithShortDescriptions(IF Options.includeExamples THEN Given
                                               ELSE WithoutExamples(Given))
    /\ (pc = "built" /\ Options.resolveRefs) =>
           /\ ~Options.includeExamples => WithoutExamples(Built) = Built
           /\ Out = Inlined

\* C14 witness: reduce inlined a reference of the assembled document and the
\* optimizer then changed the inlined document, to something else than
\* optimizing first and inlining afterwards gives
C14_Witness ==
    /\ pc = "reduced"
    /\ Options.resolveRefs
    /\ Given # Built
    /\ Out # Given
    /\ Out # OptimizedThenInlined


C18_AsStated ==
    (/\ cli # <<>>
     /\ cli.command \in {"reduce", "fetch"}
     /\ pc \in {"validate", "write", "done"}
     /\ cli.config # <<>>
     /\ {"maxActions", "maxSizeBytes"} \subseteq DOMAIN cli.config[1]
     /\ {"actions", "size"} \cap DOMAIN cli.argv = {}) =>
        /\ locals.self.maxActions = cli.config[1].maxActions
        /\ locals.self.maxSizeBytes = cli.config[1].maxSizeBytes

(***************************************************************************)
(* C13  Post-reduction validation is a hard gate.                          *)
(***************************************************************************)
\* C13: in the reduce, fetch and wizard commands an output file is written
\* only after the reduced document has passed validation, and it is that
\* document; in every run where validation of the reduced document fails the
\* run ends with exit code 1 and no output file is ever written.
C13_ValidationGate ==
    cli # <<>> =>
        /\ effects.files # <<>> =>
              /\ cli.valid = <<TRUE>>
              /\ Len(effects.files) = 1
              /\ effects.files[1].content = Deref(result.schema, heap)
        /\ cli.valid = <<FALSE>> =>
              /\ pc = "exited"
              /\ effects.files = <<>>
              /\ effects.exitCode = <<1>>
        /\ pc \in {"write", "done"} => cli.valid = <<TRUE>>

\* C13 witness: a command reduced its document, the validator rejected the
\* reduced document, and the run has ended with exit code 1 and no file
C13_Witness ==
    /\ cli # <<>>
    /\ result # <<>>
    /\ cli.valid = <<FALSE>>
    /\ pc = "exited"
    /\ effects.exitCode = <<1>>
    /\ effects.files = <<>>


(***************************************************************************)
(* C16  Wizard back-navigation.                                            *)
(***************************************************************************)
\* C16 as stated: at group selection, at the refine confirmation and at
\* operation refinement, answering 'Go back' puts the wizard at the prompt of
\* the step before (mode selection, group selection with the previously
\* selected groups checked, the refine confirmation), with what it had
\* recorded, and the run goes on from there.
C16_AsStated ==
    [][(/\ pc = "prompt"
        /\ locals.state.mode = <<"groups">>
        /\ locals.step \in {2, 3, 4}
        /\ locals'.action = <<"back">>) =>
            /\ pc' = "prompt"
            /\ locals'.step = locals.step - 1
            /\ locals'.state.selectedTags = locals.state.selectedTags
            /\ locals'.state.refine = locals.state.refine
            /\ locals'.step = 2 => checkedTags(locals') = locals.state.selectedTags[1]
            /\ effects' = effects]_vars

(***************************************************************************)
(* C20  Wizard cancellation writes nothing.                                *)
(***************************************************************************)
\* C20: in the wizard command a file is written only after runWizard returned
\* a result, which takes a non-empty selection and a confirmed summary prompt
\* (and a reduced document that passed validation); a run whose confirmation
\* is declined, or whose selection ends up empty, ends with exit code 0 and no
\* file written.
C20_CancelWritesNothing ==
    (cli # <<>> /\ cli.command = "wizard") =>
        /\ (effects.files # <<>> \/ cli.valid # <<>> \/ pc \in {"validate", "write", "done"}) =>
              /\ selection # <<>>
              /\ locals.proceed = <<TRUE>>
              /\ result # <<>>
        /\ effects.files # <<>> => pc = "done"
        /\ (locals # <<>> /\ locals.proceed = <<FALSE>>) =>
              /\ pc = "exited"
              /\ effects.files = <<>>
              /\ effects.exitCode = <<0>>
        /\ (selection = <<>> /\ pc \notin {"cli", "prompt", "selected"}) =>
              /\ pc = "exited"
              /\ effects.files = <<>>
              /\ locals # <<>> => effects.exitCode = <<0>>
              /\ result = <<>>

\* C20 witness: the user selected operations, the wizard built its result and
\* showed the summary, the user declined, and the run has ended with exit
\* code 0 and no file
C20_Witness ==
    /\ cli # <<>>
    /\ cli.command = "wizard"
    /\ selection # <<>>
    /\ result # <<>>
    /\ locals.proceed = <<FALSE>>
    /\ pc = "exited"
    /\ effects.files = <<>>
    /\ effects.exitCode = <<0>>


(***************************************************************************)
(* C21  Exceeding the byte budget is a warning, not a failure.             *)
(***************************************************************************)
\* the --size of the run, as the handler reads it
SizeLimit == parseInt(cli.mergedOptions[1].size)

\* the run's log has this warning
Warned(message) ==
    \E i \in 1..Len(effects.log) : effects.log[i] = [level |-> "warn", message |-> message]

\* the file a run that got to the end has written
WrittenFile == [path |-> cli.mergedOptions[1].output, content |-> Deref(result.schema, heap)]

OnCycle(r) == IsInto(r, T_schemas) /\ CycleOf(NameIn(r, T_schemas)) # {}

\* the two subtrees of an operation that resolveReferences inlines, before and after
Inlinings(ij) ==
    {[given |-> OperationOf(original, ij).responses, out |-> OperationOf(Out, ij).responses],
     [given |-> OperationOf(original, ij).requestBody, out |-> OperationOf(Out, ij).requestBody]}

\* C22 as stated: in what resolveReferences makes of an operation's responses
\* or requestBody the sentinel for a reference stands only where that
\* reference is met below its own expansion, so never for a reference to a
\* schema that is on no cycle; two sibling occurrences of one resolvable
\* reference are both replaced by the same content.
C22_AsStated ==
    pc = "resolved" =>
        \A ij \in OpIndex(original.paths) :
        \A x \in Inlinings(ij) :
            x.given # <<>> =>
                /\ \A r \in AllRefs(original) :
                      Contains(x.out[1], Sentinel(r)) => OnCycle(r)
                /\ \A r \in AllRefs(original) :
                      (x.given = <<Holder(<<RefTo(r), RefTo(r)>>)>> /\ Resolvable(r, original))
                      => x.out[1].kids[1] = x.out[1].kids[2]

(***************************************************************************)
(* C23  The inliner leaves operation parameters untouched.                 *)
(***************************************************************************)
\* C23: in the output of resolveReferences every operation has the
\* parameters of the input's operation, references in them unresolved, and
\* its summary, description and tags; of an operation only responses and
\* requestBody differ.
C23_ParametersUntouched ==
    pc = "resolved" =>
        /\ Kept(result.schema) = Kept(LoadDoc(original))
        /\ \A ij \in OpIndex(original.paths) :
              LET given == OperationOf(original, ij)
                  out == OperationOf(Out, ij)
              IN  /\ out.parameters = given.parameters
                  /\ OptRefs(out.parameters) = OptRefs(given.parameters)
                  /\ [out EXCEPT !.responses = given.responses,
                                 !.requestBody = given.requestBody] = given

\* C23 witness: an operation's parameters reference the component parameter
\* P, which the document has, and its responses the component response R;
\* after resolveReferences the reference to P is still there and the one to
\* R is gone
C23_Witness ==
    /\ pc = "resolved"
    /\ \E ij \in OpIndex(original.paths) :
          /\ OperationOf(original, ij).parameters = <<Holder(<<RefTo(RefParameter(<<"P">>))>>)>>
          /\ Resolvable(RefParameter(<<"P">>), original)
          /\ OperationOf(Out, ij).parameters = <<Holder(<<RefTo(RefParameter(<<"P">>))>>)>>
          /\ RefResponse(<<"R">>) \in OptRefs(OperationOf(original, ij).responses)
          /\ RefResponse(<<"R">>) \notin OptRefs(OperationOf(Out, ij).responses)
          /\ OperationOf(Out, ij).responses # OperationOf(original, ij).responses

(***************************************************************************)
(* C24  Unresolvable references survive inlining.                          *)
(***************************************************************************)
\* C24 as stated: a reference that matches no component type, or names a
\* component the document does not have, is in the output of
\* resolveReferences what it was, at each of its occurrences: no sentinel
\* stands for it, and responses or a requestBody whose references are all
\* unresolvable come out as they went in.
C24_AsStated ==
    pc = "resolved" =>
        \A ij \in OpIndex(original.paths) :
        \A x \in Inlinings(ij) :
            x.given # <<>> =>
                /\ \A r \in OptRefs(x.given) :
                      ~Resolvable(r, original) => ~Contains(x.out[1], Sentinel(r))
                /\ (\A r \in OptRefs(x.given) : ~Resolvable(r, original)) => x.out = x.given


(***************************************************************************)
(* C25  Closure for an explicit selection.                                 *)
(***************************************************************************)
\* what the operations of the selection reference, as the original declares them
SelectionRefs ==
    UNION {OperationRefs(At(LoadHeap(original), selection[n].operation)) :
              n \in 1..Len(selection)}

\* the schemas of the original that the selection reaches through chains of
\* `#/components/schemas/<name>` references
SelectionClosure == Reach(SchemaTargets(SelectionRefs), original) \cap NamesOf(original.schemas)

C26_AssemblerPruning ==
    pc = "reduced" =>
        /\ NamesOf(locals.built.schemas) \subseteq
              Reach(SchemaTargets(UNION {OperationRefs(o) : o \in SelectedOperations}), original)
        /\ \A k \in 1..Len(locals.built.schemas) :
              \E j \in 1..Len(input.schemas) : input.schemas[j] = locals.built.schemas[k]
        /\ locals.built.openapi = input.openapi
        /\ locals.built.shell = input.shell
        /\ Deref(locals.built, heap).shell = original.shell
        /\ \A ij \in OpIndex(locals.built.paths) :
              \E ab \in OpIndex(input.paths) :
                  /\ PathOf(input, ab) = PathOf(locals.built, ij)
                  /\ MethodOf(input, ab) = MethodOf(locals.built, ij)
                  /\ OperationOf(input, ab) = OperationOf(locals.built, ij)
                  /\ OperationOf(Deref(locals.built, heap), ij) = OperationOf(original, ab)

\* C26 witness: the source has schemas A, B and C and the component maps
\* securitySchemes, parameters and responses; the one selected operation
\* references A alone; the assembled document has A and neither B nor C, and
\* the three maps whole
C26_Witness ==
    /\ pc = "reduced"
    /\ Len(locals.selectedOps) = 1
    /\ NamesOf(original.schemas) = {<<"A">>, <<"B">>, <<"C">>}
    /\ NamesOf(locals.built.schemas) = {<<"A">>}
    /\ \A k \in {"securitySchemes", "parameters", "responses"} :
          /\ original.shell[k] # <<>>
          /\ Deref(locals.built, heap).shell[k] = original.shell[k]
    /\ RefSchema(<<"C">>) \in MapRefs(Deref(locals.built, heap).shell.parameters[1])


(***************************************************************************)
(* C27  Grouping.                                                          *)
(***************************************************************************)
\* the operations under a key that is one of the five verbs as written, in lower case
LowerKeyed(v) == {ij \in OpIndex(v.paths) : MethodOf(v, ij) \in Verbs}

\* the non-empty segments of a path
Segments(path) == SelectSeq(split(path, "/"), LAMBDA p : p # <<>>)

\* the groups an operation of the original is in
GroupsOf(ij) ==
    {g \in 1..Len(locals.groups) :
        \E n \in 1..Len(locals.groups[g].operations) :
            /\ locals.groups[g].operations[n].path = PathOf(original, ij)
            /\ locals.groups[g].operations[n].method = toUpperCase(MethodOf(original, ij))}

Source(p) == OperationOf(original, DeclaredOps(original)[DeclaredPos(p)])

\* C29: the operations list of the result of reduce has one entry for each
\* (path, method) of result.schema.paths and no other, in the order of
\* selection (score descending, equal scores in the order of the document),
\* each with the method in upper case, the path, and the summary of the
\* source's operation; its length is reducedOperationCount; and
\* originalOperationCount is the number of eligible operations of the input,
\* whatever maxActions and methodFilter are.
C29_ResultConsistent ==
    pc = "reduced" =>
        /\ Len(result.operations) = Len(locals.selectedOps)
        /\ Len(result.operations) = result.reducedOperationCount
        /\ Len(result.operations) = Cardinality(Kept(result.schema))
        /\ PairsOf(locals.selectedOps) = Kept(result.schema)
        /\ \A n \in 1..Len(result.operations) :
              /\ result.operations[n] =
                    [method |-> toUpperCase(locals.selectedOps[n].method),
                     path |-> locals.selectedOps[n].path,
                     summary |-> Source(locals.selectedOps[n]).summary]
              /\ \A c \in 1..Len(result.operations[n].method) :
                    result.operations[n].method[c] \notin DOMAIN UpperMap
        /\ \A n, m \in 1..Len(locals.selectedOps) :
              n < m =>
                 \/ locals.selectedOps[n].priority > locals.selectedOps[m].priority
                 \/ /\ locals.selectedOps[n].priority = locals.selectedOps[m].priority
                    /\ DeclaredPos(locals.selectedOps[n]) < DeclaredPos(locals.selectedOps[m])
        /\ result.originalOperationCount = Cardinality(Eligible(original))

\* C29 witness: a reduction with a method filter and a maxActions below the
\* number of operations that pass it: two operations are listed, fewer than
\* pass the filter, which are fewer than the eligible ones that
\* originalOperationCount counts; a listed method was declared in lower case
C29_Witness ==
    /\ pc = "reduced"
    /\ Options.methodFilter # <<>>
    /\ Len(result.operations) = 2
    /\ Len(locals.prioritizedOps) > 2
    /\ result.originalOperationCount > Len(locals.prioritizedOps)
    /\ result.reducedOperationCount = 2
    /\ \E n \in 1..2 : result.operations[n].method # locals.selectedOps[n].method


(***************************************************************************)
(* C30  Core-entity dominance.                                             *)
(***************************************************************************)
\* the path of an operation contains '/' + a configured core entity
OnCorePath(v, ij) ==
    \E k \in 1..Len(Options.coreEntities) :
        includes(toLowerCase(PathOf(v, ij)), <<"/">> \o Options.coreEntities[k])

\* the score calculatePriority gives an operation of the original
Score(ij) ==
    calculatePriority(PathOf(original, ij), toLowerCase(PathOf(original, ij)),
                      toLowerCase(MethodOf(original, ij)), OperationOf(original, ij),
                      Options.coreEntities)

\* the eligible operations that pass the method filter, and those reduce selected
Candidates == {ij \in Eligible(original) : PassesFilter(original, ij)}
Chosen ==
    {ij \in Eligible(original) :
        <<PathOf(original, ij), MethodOf(original, ij)>> \in PairsOf(locals.selectedOps)}

\* C30: the score of every eligible operation is between 30 and 170; that of
\* an operation on a core path is at least 130 and that of any other at most
\* 70; and when reduce selects an operation that is not on a core path, it
\* selects every eligible operation on a core path that passes the method
\* filter.
C30_CoreDominance ==
    pc = "reduced" =>
        /\ \A ij \in Eligible(original) :
              /\ Score(ij) >= 30
              /\ Score(ij) <= 170
              /\ OnCorePath(original, ij) => Score(ij) >= 130
              /\ ~OnCorePath(original, ij) => Score(ij) <= 70
        /\ \A n \in 1..Len(locals.prioritizedOps) :
              locals.prioritizedOps[n].priority = Score(DeclaredOps(original)[DeclaredPos(locals.prioritizedOps[n])])
        /\ (\E ij \in Chosen : ~OnCorePath(original, ij)) =>
              \A ab \in Candidates : OnCorePath(original, ab) => ab \in Chosen

\* C30 witness: the lowest score a core path can have, 130, beside the
\* highest another path can have, 70; the operation of 130 is selected and
\* the one of 70 is not
C30_Witness ==
    /\ pc = "reduced"
    /\ \E ij, ab \in Candidates :
          /\ OnCorePath(original, ij)
          /\ Score(ij) = 130
          /\ ~OnCorePath(original, ab)
          /\ Score(ab) = 70
          /\ ij \in Chosen
          /\ ab \notin Chosen

====
